---- MODULE Spec2Model ----
(***************************************************************************)
(* State-machine model of the orchestration layer of KMS-Google-ADK:       *)
(*   orchestration/message_bus.py    (MessageBus)                          *)
(*   orchestration/workflow_engine.py (WorkflowEngine)                     *)
(* and of its ingestion, index and linking layer:                          *)
(*   scripts/ingest.py, agents/ingestion_agent.py, app/index_store.py,     *)
(*   agents/linking_agent.py, agents/root_agent.py                         *)
(*                                                                         *)
(* Strings that the code takes apart (subscription ids, topics, patterns)  *)
(* are sequences of characters; a uuid is one character, drawn from a      *)
(* counter so that every uuid4() call yields a fresh value.  Python's None *)
(* is <<>> for strings and optional messages, "" for a correlation id and  *)
(* NoTtl for a TTL.  Time is a clock of whole seconds that the environment *)
(* advances.                                                               *)
(*                                                                         *)
(* The event loop is cooperative: a coroutine runs from one suspension     *)
(* point to the next without interleaving.  publish, subscribe,            *)
(* unsubscribe and the sqlite calls never suspend, so every action below   *)
(* covers the code between two suspension points.  sqlite calls are taken  *)
(* to succeed.                                                             *)
(***************************************************************************)
EXTENDS Integers, Sequences, FiniteSets, TLC

VARIABLES
    \* ---- MessageBus fields (message_bus.py:73-111)
    queues,             \* priority -> deque of messages
    subscriptions,      \* insertion-ordered dict: pattern -> list of Subscription
    message_history,    \* deque(maxlen=1000)
    dead_letter_queue,  \* deque(maxlen=1000)
    circuit_breakers,   \* subscriber_id -> breaker record
    is_processing,
    stats,
    max_queue_size,     \* constructor argument
    \* ---- tasks and environment of the bus
    dispatcher,         \* 0: no dispatcher task; k in 1..4: next queue to scan
    requests,           \* the request() coroutines, in call order
    invoked,            \* every callback invocation, in order: who, what, when, whether it raised
    now,                \* the clock, in seconds
    uuid_count,         \* number of uuid4() values drawn
    \* ---- WorkflowEngine (workflow_engine.py:84-111)
    db,                 \* the workflows / workflow_steps tables: id -> row
    objs,               \* Workflow objects in memory, one per _load_workflow in start_workflow
    active_workflows,   \* workflow id -> index of its object in objs
    loops,              \* the _execute_workflow tasks; loops[i] runs objs[i]
    last_call,          \* the last start_workflow / cancel_workflow call and what it returned
    \* ---- the bucket and the index store (app/index_store.py:98-119)
    bucket,             \* blob name -> blob (content, etag, updated)
    files,              \* table files: path -> row
    chunks,             \* table chunks: id -> row
    chunk_tags,         \* table chunk_tags: the rows (chunk_id, tag), in insertion order
    ingest_calls,       \* the calls of run_ingest and of process_document made
                        \* outside a batch, in order, and what each returned
    \* ---- tag normalization
    tags_in,            \* the metadata value given to normalize_tags
    tags_out,           \* what normalize_tags returned for it, and for its own output
    \* ---- candidate query (app/index_store.py:205-268)
    query,              \* the FilterSpec of the last fetch_candidates call
    candidates,         \* the ids of the rows it returned
    \* ---- batch ingestion (agents/ingestion_agent.py:302-361)
    batch,              \* the process_batch call: its arguments and what it returned
    semaphore,          \* value of the asyncio.Semaphore of the running batch
    tasks,              \* the process_with_semaphore coroutines of the batch
    \* ---- link store (agents/linking_agent.py:74-100)
    semantic_links,     \* table semantic_links: (source, target, type) -> row
    link_result,        \* the last call of the linking agent and what it returned
    \* ---- pending links (obsidian-kms-adk/agents/linking_agent.py:243-394)
    graph_db,           \* the pending links and the edges of the graph store
    approve_result,     \* the last approve_link call and what it returned
    \* ---- chunking (agents/ingestion_agent.py:79-146)
    split_result        \* the last split_into_chunks call and the chunks it returned

busVars == <<queues, subscriptions, message_history, dead_letter_queue,
             circuit_breakers, is_processing, stats, max_queue_size,
             dispatcher, requests, invoked, now, uuid_count>>
wfVars == <<db, objs, active_workflows, loops, last_call>>
storeVars == <<bucket, files, chunks, chunk_tags, ingest_calls>>
kmsVars == <<bucket, files, chunks, chunk_tags, ingest_calls, tags_in, tags_out,
             query, candidates, batch,
             semaphore, tasks, semantic_links, link_result, graph_db, approve_result, split_result>>
vars == <<queues, subscriptions, message_history, dead_letter_queue,
          circuit_breakers, is_processing, stats, max_queue_size,
          dispatcher, requests, invoked, now, uuid_count,
          db, objs, active_workflows, loops, last_call,
          bucket, files, chunks, chunk_tags, ingest_calls, tags_in, tags_out,
          query, candidates, batch,
             semaphore, tasks, semantic_links, link_result, graph_db, approve_result, split_result>>

----------------------------------------------------------------------------
(* Bounds of the model *)

MaxMessages == 4      \* messages published in one behaviour
MaxSubs == 3          \* subscriptions in the table when request() is called
MaxRequests == 2      \* request() calls
MaxNow == 30          \* the clock stops here
MaxWorkflows == 1     \* workflows stored in one behaviour
MaxBreakerMessages == 7  \* messages published in the circuit-breaker scenario
MaxBreakerNow == 90   \* the clock stops here in the circuit-breaker scenario
MaxTtlMessages == 3   \* messages published in the TTL scenario
MaxTtlNow == 60        \* the clock stops here in the TTL scenario
MaxTagStringLen == 3  \* characters of a tag string given to normalize_tags
MaxTagLen == 1        \* characters of one tag of a tag list
MaxTags == 2          \* tags of a tag list
MaxUploads == 3       \* objects written to the bucket
MaxIngestCalls == 3   \* ingestion calls
MaxQueryIngests == 2  \* runs of the ingest script before a search
MaxBatchDocs == 3     \* paths of a batch
MaxConcurrent == 2    \* max_concurrent of a batch
MaxBatchUploads == 1  \* objects in the bucket of a batch
MaxLinks == 1         \* links of a create_links call, documents of a vector search
MaxPending == 3       \* pending links proposed
MaxDocLines == 4      \* lines of a document given to split_into_chunks
MaxDagSteps == 3      \* steps of a workflow with dependencies by id
MaxSubmitted == 2     \* links of a create_links call in the strength scenario
MaxGraphLinks == 3    \* links stored in the link graph scenario
MaxDepth == 2         \* depth given to get_link_graph
MaxNodes == 3         \* max_nodes given to get_link_graph
MaxQueueSize == 2     \* max_queue_size of the bus in the overflow scenario
MaxLiveMessages == 3  \* messages published in the dispatcher progress scenario

----------------------------------------------------------------------------
(* Generic helpers *)

Range(s) == {s[k] : k \in DOMAIN s}
Max(S) == CHOOSE x \in S : \A y \in S : y <= x

\* variant: a deque without maxlen
DequeAppendUnbounded(q, x, maxlen) == Append(q, x)

\* collections.deque(maxlen=n).append(x): a full deque drops its oldest element
DequeAppend(q, x, maxlen) ==
    IF maxlen = 0 THEN <<>>
    ELSE IF Len(q) >= maxlen THEN Append(Tail(q), x)
    ELSE Append(q, x)

\* [sub for sub in subs if sub.subscriber_id != subscriber_id]
RECURSIVE WithoutSubscriber(_, _)
WithoutSubscriber(subs, subscriber_id) ==
    IF subs = <<>> THEN <<>>
    ELSE IF Head(subs).subscriber_id # subscriber_id
         THEN <<Head(subs)>> \o WithoutSubscriber(Tail(subs), subscriber_id)
         ELSE WithoutSubscriber(Tail(subs), subscriber_id)

\* str.startswith / str.endswith
StartsWith(s, p) == Len(p) <= Len(s) /\ SubSeq(s, 1, Len(p)) = p
EndsWith(s, p) == Len(p) <= Len(s) /\ SubSeq(s, Len(s) - Len(p) + 1, Len(s)) = p

\* index of the first occurrence of character c in s, 0 when there is none
RECURSIVE FirstIndex(_, _, _)
FirstIndex(s, c, i) ==
    IF i > Len(s) THEN 0
    ELSE IF s[i] = c THEN i
    ELSE FirstIndex(s, c, i + 1)

\* s.split(":", 1) of a string that holds a colon: <<before, after>> the first colon
SplitFirstColon(s) ==
    LET i == FirstIndex(s, ":", 1)
    IN  <<SubSeq(s, 1, i - 1), SubSeq(s, i + 1, Len(s))>>

----------------------------------------------------------------------------
(* message_bus.py: enums and records *)

LOW == 1
NORMAL == 2
HIGH == 3
CRITICAL == 4
\* iteration order of "for priority in MessagePriority": definition order
MessagePriority == <<LOW, NORMAL, HIGH, CRITICAL>>

NoTtl == -1
HistoryMaxLen == 1000
DeadLetterMaxLen == 1000
BreakerThreshold == 5
BreakerTimeout == 60

Message(id, type, priority, source, topic, timestamp, correlation_id, reply_to, ttl) ==
    [id |-> id, type |-> type, priority |-> priority, source |-> source,
     topic |-> topic, timestamp |-> timestamp, correlation_id |-> correlation_id,
     reply_to |-> reply_to, ttl |-> ttl]

Subscription(subscriber_id, topic_pattern, priority) ==
    [subscriber_id |-> subscriber_id, topic_pattern |-> topic_pattern,
     priority |-> priority]

\* the whole bus as one value, threaded through the sequential code of a handler
Bus == [queues |-> queues, subscriptions |-> subscriptions,
        message_history |-> message_history,
        dead_letter_queue |-> dead_letter_queue,
        circuit_breakers |-> circuit_breakers, stats |-> stats,
        max_queue_size |-> max_queue_size, requests |-> requests,
        invoked |-> invoked, now |-> now, uuid_count |-> uuid_count]

Commit(b) ==
    /\ queues' = b.queues
    /\ subscriptions' = b.subscriptions
    /\ message_history' = b.message_history
    /\ dead_letter_queue' = b.dead_letter_queue
    /\ circuit_breakers' = b.circuit_breakers
    /\ stats' = b.stats
    /\ requests' = b.requests
    /\ invoked' = b.invoked
    /\ uuid_count' = b.uuid_count
    /\ UNCHANGED <<max_queue_size, now>>

----------------------------------------------------------------------------
(* The subscription table: a dict in insertion order *)

HasKey(subs, pattern) == \E k \in 1..Len(subs) : subs[k].pattern = pattern
KeyIndex(subs, pattern) == CHOOSE k \in 1..Len(subs) : subs[k].pattern = pattern

\* all Subscription entries of the table, in iteration order
RECURSIVE AllSubscriptions(_)
AllSubscriptions(subs) ==
    IF subs = <<>> THEN <<>> ELSE Head(subs).subs \o AllSubscriptions(Tail(subs))

----------------------------------------------------------------------------
(* MessageBus.publish, subscribe, unsubscribe *)

\* variant: the message goes to the front of its queue
publish_at_front(b, topic, message_type, priority, source, correlation_id, reply_to, ttl) ==
    LET message_id == b.uuid_count + 1
        message == Message(message_id, message_type, priority, source, topic,
                           b.now, correlation_id, reply_to, ttl)
    IN  [b EXCEPT !.uuid_count = message_id,
                  !.queues[priority] = <<message>> \o @,
                  !.message_history = DequeAppend(@, message, HistoryMaxLen),
                  !.stats.messages_sent = @ + 1]

publish(b, topic, message_type, priority, source, correlation_id, reply_to, ttl) ==
    LET message_id == b.uuid_count + 1
        message == Message(message_id, message_type, priority, source, topic,
                           b.now, correlation_id, reply_to, ttl)
    IN  [b EXCEPT !.uuid_count = message_id,
                  !.queues[priority] = DequeAppend(@, message, b.max_queue_size),
                  !.message_history = DequeAppend(@, message, HistoryMaxLen),
                  !.stats.messages_sent = @ + 1]

subscribe(b, subscriber_id, topic_pattern, priority) ==
    LET subscription == Subscription(subscriber_id, topic_pattern, priority)
        subs == b.subscriptions
    IN  [b EXCEPT !.subscriptions =
                      IF HasKey(subs, topic_pattern)
                      THEN [subs EXCEPT ![KeyIndex(subs, topic_pattern)].subs =
                                            Append(@, subscription)]
                      ELSE Append(subs, [pattern |-> topic_pattern,
                                         subs |-> <<subscription>>]),
                  !.stats.subscriptions_active = @ + 1]

\* the id subscribe returns: f"{subscriber_id}:{topic_pattern}"
SubscriptionId(subscriber_id, topic_pattern) ==
    subscriber_id \o <<":">> \o topic_pattern

unsubscribe(b, subscription_id) ==
    LET parts == SplitFirstColon(subscription_id)
        subscriber_id == parts[1]
        topic_pattern == parts[2]
        subs == b.subscriptions
    IN  IF HasKey(subs, topic_pattern)
        THEN LET k == KeyIndex(subs, topic_pattern)
                 kept == WithoutSubscriber(subs[k].subs, subscriber_id)
             IN  [b EXCEPT !.subscriptions =
                               IF kept = <<>>
                               THEN SubSeq(subs, 1, k - 1) \o SubSeq(subs, k + 1, Len(subs))
                               ELSE [subs EXCEPT ![k].subs = kept],
                           !.stats.subscriptions_active = @ - 1]
        ELSE b

----------------------------------------------------------------------------
(* MessageBus._topic_matches *)

topic_matches(topic, pattern) ==
    IF pattern = <<"*">> THEN TRUE
    ELSE IF EndsWith(pattern, <<"*">>)
         THEN StartsWith(topic, SubSeq(pattern, 1, Len(pattern) - 1))
    ELSE IF StartsWith(pattern, <<"*">>)
         THEN EndsWith(topic, SubSeq(pattern, 2, Len(pattern)))
    ELSE topic = pattern

\* variant: only the first matching subscription is served
RECURSIVE matching_subscriptions_first_only(_, _)
matching_subscriptions_first_only(subs, topic) ==
    IF subs = <<>> THEN <<>>
    ELSE IF topic_matches(topic, Head(subs).pattern)
         THEN <<Head(Head(subs).subs)>>
         ELSE matching_subscriptions_first_only(Tail(subs), topic)

\* matching_subscriptions of _handle_message: the lists of every matching
\* pattern, in dict order
RECURSIVE matching_subscriptions(_, _)
matching_subscriptions(subs, topic) ==
    IF subs = <<>> THEN <<>>
    ELSE (IF topic_matches(topic, Head(subs).pattern) THEN Head(subs).subs ELSE <<>>)
         \o matching_subscriptions(Tail(subs), topic)

----------------------------------------------------------------------------
(* Circuit breaker: MessageBus._is_circuit_open, _record_circuit_failure *)

\* variant: an open breaker never lets a trial through
is_circuit_open_ignores_timeout(breakers, subscriber_id, t) ==
    IF subscriber_id \notin DOMAIN breakers THEN FALSE
    ELSE breakers[subscriber_id].state = "open"

\* the value _is_circuit_open returns
is_circuit_open(breakers, subscriber_id, t) ==
    IF subscriber_id \notin DOMAIN breakers THEN FALSE
    ELSE LET breaker == breakers[subscriber_id]
         IN  IF breaker.state = "open"
             THEN ~(t - breaker.last_failure > breaker.timeout)
             ELSE FALSE

\* the breaker table after _is_circuit_open: an open breaker whose timeout
\* has passed becomes half-open
after_circuit_check(breakers, subscriber_id, t) ==
    IF subscriber_id \notin DOMAIN breakers THEN breakers
    ELSE LET breaker == breakers[subscriber_id]
         IN  IF breaker.state = "open" /\ t - breaker.last_failure > breaker.timeout
             THEN [breakers EXCEPT ![subscriber_id].state = "half-open"]
             ELSE breakers

\* variant: the breaker opens one failure late (> instead of >=)
record_circuit_failure_late(breakers, subscriber_id, t) ==
    LET fresh == [state |-> "closed", failure_count |-> 0, last_failure |-> -1,
                  timeout |-> BreakerTimeout]
        breaker == IF subscriber_id \in DOMAIN breakers
                   THEN breakers[subscriber_id] ELSE fresh
        count == breaker.failure_count + 1
        updated == [breaker EXCEPT !.failure_count = count,
                                   !.last_failure = t,
                                   !.state = IF count > BreakerThreshold
                                             THEN "open" ELSE @]
    IN  [s \in DOMAIN breakers \cup {subscriber_id} |->
            IF s = subscriber_id THEN updated ELSE breakers[s]]

record_circuit_failure(breakers, subscriber_id, t) ==
    LET fresh == [state |-> "closed", failure_count |-> 0, last_failure |-> -1,
                  timeout |-> BreakerTimeout]
        breaker == IF subscriber_id \in DOMAIN breakers
                   THEN breakers[subscriber_id] ELSE fresh
        count == breaker.failure_count + 1
        updated == [breaker EXCEPT !.failure_count = count,
                                   !.last_failure = t,
                                   !.state = IF count >= BreakerThreshold
                                             THEN "open" ELSE @]
    IN  [s \in DOMAIN breakers \cup {subscriber_id} |->
            IF s = subscriber_id THEN updated ELSE breakers[s]]

----------------------------------------------------------------------------
(* Callbacks.  The reply handler is the closure of request(); the others   *)
(* are the subscribers of the repository's tests: a responder that answers *)
(* on message.reply_to, and handlers that only record the message.         *)

UuidChars == <<"u1", "u2", "u3", "u4", "u5", "u6", "u7", "u8", "u9", "u10",
               "u11", "u12", "u13", "u14", "u15", "u16">>
\* str(uuid.uuid4()): the n-th value drawn
Uuid(n) == UuidChars[n]

Responder == <<"responder">>
RequestSubscriberId(correlation_id) == <<"request", ":", correlation_id>>
ReplyTopic(correlation_id) == <<"reply", ":", correlation_id>>
IsReplyHandler(subscriber_id) ==
    Len(subscriber_id) = 3 /\ subscriber_id[1] = "request" /\ subscriber_id[2] = ":"

\* variant: the handler sets the event and loses the message
reply_handler_drops_message(b, correlation_id, message) ==
    [b EXCEPT !.requests =
        [r \in 1..Len(b.requests) |->
            IF b.requests[r].correlation_id = correlation_id
            THEN [b.requests[r] EXCEPT !.response_received = TRUE]
            ELSE b.requests[r]]]

\* reply_handler of request(): response_message = message; response_received.set()
reply_handler(b, correlation_id, message) ==
    [b EXCEPT !.requests =
        [r \in 1..Len(b.requests) |->
            IF b.requests[r].correlation_id = correlation_id
            THEN [b.requests[r] EXCEPT !.response_message = <<message>>,
                                       !.response_received = TRUE]
            ELSE b.requests[r]]]

\* the responder of the tests: publish a RESPONSE on message.reply_to
responder(b, message) ==
    publish(b, message.reply_to, "response", NORMAL, "responder",
            message.correlation_id, <<>>, NoTtl)

callback(b, subscription, message) ==
    IF IsReplyHandler(subscription.subscriber_id)
    THEN reply_handler(b, subscription.subscriber_id[3], message)
    ELSE IF subscription.subscriber_id = Responder
    THEN responder(b, message)
    ELSE b

----------------------------------------------------------------------------
(* MessageBus._handle_message.  raises: the subscriber ids whose callback  *)
(* raises on this message.                                                 *)

Truthy(ttl) == ttl # NoTtl /\ ttl # 0

\* the loop "for subscription in matching_subscriptions" from entry i on
RECURSIVE deliver(_, _, _, _, _)
deliver(b, message, matching, i, raises) ==
    IF i > Len(matching) THEN b
    ELSE
      LET subscription == matching[i]
          sid == subscription.subscriber_id
          is_open == is_circuit_open(b.circuit_breakers, sid, b.now)
          b1 == [b EXCEPT !.circuit_breakers = after_circuit_check(@, sid, b.now)]
          b2 == [b1 EXCEPT !.invoked =
                     Append(@, [subscriber_id |-> sid, message |-> message,
                                sent |-> b.stats.messages_sent,
                                at |-> b.now, raised |-> sid \in raises])]
          failed == [b2 EXCEPT
                       !.circuit_breakers = record_circuit_failure(@, sid, b.now),
                       !.stats.messages_failed = @ + 1,
                       !.dead_letter_queue =
                           DequeAppend(@, [message |-> message,
                                           subscription |-> subscription,
                                           timestamp |-> b.now],
                                       DeadLetterMaxLen)]
          called == callback(b2, subscription, message)
          done == [called EXCEPT !.stats.messages_processed = @ + 1]
      IN  IF is_open THEN deliver(b1, message, matching, i + 1, raises)
          ELSE IF sid \in raises THEN deliver(failed, message, matching, i + 1, raises)
          ELSE deliver(done, message, matching, i + 1, raises)

handle_message(b, message, raises) ==
    IF Truthy(message.ttl) /\ b.now - message.timestamp > message.ttl
    THEN b
    ELSE LET matching == matching_subscriptions(b.subscriptions, message.topic)
         IN  IF matching = <<>> THEN b
             ELSE deliver(b, message, matching, 1, raises)

----------------------------------------------------------------------------
(* Actions of the bus *)

\* MessageBus.start
Start ==
    /\ ~is_processing
    /\ is_processing' = TRUE
    /\ dispatcher' = 1
    /\ UNCHANGED <<queues, subscriptions, message_history, dead_letter_queue,
                   circuit_breakers, stats, max_queue_size, requests, invoked,
                   now, uuid_count>>
    /\ UNCHANGED <<wfVars, kmsVars>>

\* MessageBus.stop: the dispatcher task is cancelled
Stop ==
    /\ is_processing
    /\ is_processing' = FALSE
    /\ dispatcher' = 0
    /\ UNCHANGED <<queues, subscriptions, message_history, dead_letter_queue,
                   circuit_breakers, stats, max_queue_size, requests, invoked,
                   now, uuid_count>>
    /\ UNCHANGED <<wfVars, kmsVars>>

\* a client's await bus.publish(...)
Publish(topic, priority, ttl) ==
    /\ Commit(publish(Bus, topic, "event", priority, "system", "", <<>>, ttl))
    /\ UNCHANGED <<is_processing, dispatcher>>
    /\ UNCHANGED <<wfVars, kmsVars>>

\* a client's await bus.subscribe(...)
Subscribe(subscriber_id, topic_pattern) ==
    /\ Commit(subscribe(Bus, subscriber_id, topic_pattern, NORMAL))
    /\ UNCHANGED <<is_processing, dispatcher>>
    /\ UNCHANGED <<wfVars, kmsVars>>

\* a client's await bus.unsubscribe(id), id as returned by subscribe
Unsubscribe(subscriber_id, topic_pattern) ==
    /\ Commit(unsubscribe(Bus, SubscriptionId(subscriber_id, topic_pattern)))
    /\ UNCHANGED <<is_processing, dispatcher>>
    /\ UNCHANGED <<wfVars, kmsVars>>

\* variant: the pass never looks at the first priority
RECURSIVE next_queue_skip_first(_, _)
next_queue_skip_first(qs, from) ==
    IF from > Len(MessagePriority) THEN 0
    ELSE IF from > 1 /\ qs[MessagePriority[from]] # <<>> THEN from
    ELSE next_queue_skip_first(qs, from + 1)

\* the queue the dispatcher pops next: the first non-empty one from position
\* from on in this pass over MessagePriority, 0 when the pass finds none
RECURSIVE next_queue(_, _)
next_queue(qs, from) ==
    IF from > Len(MessagePriority) THEN 0
    ELSE IF qs[MessagePriority[from]] # <<>> THEN from
    ELSE next_queue(qs, from + 1)

\* MessageBus._process_messages, from one suspension point (a callback, or
\* the sleep that ends a pass) to the next
Dispatch(raises) ==
    /\ is_processing
    /\ dispatcher \in 1..Len(MessagePriority)
    /\ LET k == next_queue(queues, dispatcher)
       IN  IF k = 0
           THEN /\ dispatcher # 1
                /\ dispatcher' = 1
                /\ Commit(Bus)
           ELSE LET priority == MessagePriority[k]
                    message == Head(queues[priority])
                    popped == [Bus EXCEPT !.queues[priority] = Tail(@)]
                IN  /\ Commit(handle_message(popped, message, raises))
                    /\ dispatcher' = IF k = Len(MessagePriority) THEN 1 ELSE k + 1
    /\ UNCHANGED is_processing
    /\ UNCHANGED <<wfVars, kmsVars>>

\* MessageBus.request up to its await: subscribe the reply handler, publish
\* the request, wait for the reply event
RequestCall(topic, timeout, priority) ==
    /\ Len(requests) < MaxRequests
    /\ stats.messages_sent < MaxMessages
    /\ Len(AllSubscriptions(subscriptions)) < MaxSubs
    /\ LET correlation_id == Uuid(uuid_count + 1)
           reply_topic == ReplyTopic(correlation_id)
           b1 == [Bus EXCEPT !.uuid_count = @ + 1]
           b2 == subscribe(b1, RequestSubscriberId(correlation_id), reply_topic,
                           priority)
           subscription_id ==
               SubscriptionId(RequestSubscriberId(correlation_id), reply_topic)
           b3 == publish(b2, topic, "request", priority, "requester",
                         correlation_id, reply_topic, NoTtl)
           call == [correlation_id |-> correlation_id,
                    topic |-> topic,
                    request_id |-> b2.uuid_count + 1,
                    reply_topic |-> reply_topic,
                    subscription_id |-> subscription_id,
                    response_received |-> FALSE,
                    response_message |-> <<>>,
                    deadline |-> now + timeout,
                    pc |-> "waiting",
                    result |-> <<>>,
                    wait_ended_at |-> 0]
       IN  Commit([b3 EXCEPT !.requests = Append(@, call)])
    /\ UNCHANGED <<is_processing, dispatcher>>
    /\ UNCHANGED <<wfVars, kmsVars>>

\* "finally: await self.unsubscribe(subscription_id)", then the return
request_return(b, r, result) ==
    LET b1 == unsubscribe(b, b.requests[r].subscription_id)
    IN  [b1 EXCEPT !.requests[r].pc = "returned",
                   !.requests[r].result = result]

\* request resumes with the reply event set: return response_message
RequestResponse(r) ==
    /\ r \in 1..Len(requests)
    /\ requests[r].pc = "waiting"
    /\ requests[r].response_received
    /\ Commit(request_return([Bus EXCEPT !.requests[r].wait_ended_at = Len(invoked)],
                             r, requests[r].response_message))
    /\ UNCHANGED <<is_processing, dispatcher>>
    /\ UNCHANGED <<wfVars, kmsVars>>

\* the timer of wait_for fires before the event is set: the wait is cancelled
\* and the request task is scheduled to resume with TimeoutError
RequestTimeout(r) ==
    /\ r \in 1..Len(requests)
    /\ requests[r].pc = "waiting"
    /\ ~requests[r].response_received
    /\ now >= requests[r].deadline
    /\ Commit([Bus EXCEPT !.requests[r].pc = "timed_out",
                          !.requests[r].wait_ended_at = Len(invoked)])
    /\ UNCHANGED <<is_processing, dispatcher>>
    /\ UNCHANGED <<wfVars, kmsVars>>

\* request resumes with TimeoutError: return None
RequestTimeoutReturn(r) ==
    /\ r \in 1..Len(requests)
    /\ requests[r].pc = "timed_out"
    /\ Commit(request_return(Bus, r, <<>>))
    /\ UNCHANGED <<is_processing, dispatcher>>
    /\ UNCHANGED <<wfVars, kmsVars>>

\* time passes
Tick(d) ==
    /\ now' = now + d
    /\ UNCHANGED <<queues, subscriptions, message_history, dead_letter_queue,
                   circuit_breakers, is_processing, stats, max_queue_size,
                   dispatcher, requests, invoked, uuid_count>>
    /\ UNCHANGED <<wfVars, kmsVars>>

----------------------------------------------------------------------------
(* workflow_engine.py: records and pure methods *)

DefaultRetryCount == 3

WorkflowStep(id, name, dependencies, retry_count) ==
    [id |-> id, name |-> name, dependencies |-> dependencies,
     retry_count |-> retry_count, status |-> "pending", error |-> ""]

Workflow(id, steps) ==
    [id |-> id, status |-> "pending", steps |-> steps]

\* variant: a dependency that is no step of the workflow counts as met
dependencies_met_unknown_ok(workflow, k) ==
    \A d \in 1..Len(workflow.steps[k].dependencies) :
        \A j \in 1..Len(workflow.steps) :
            workflow.steps[j].id = workflow.steps[k].dependencies[d]
            => workflow.steps[j].status = "completed"

\* "all dependencies are completed" for step k of _get_ready_steps: every
\* dep_id is the id of a step of the workflow whose status is completed
dependencies_met(workflow, k) ==
    \A d \in 1..Len(workflow.steps[k].dependencies) :
        \E j \in 1..Len(workflow.steps) :
            /\ workflow.steps[j].id = workflow.steps[k].dependencies[d]
            /\ workflow.steps[j].status = "completed"

\* variant: nothing is ready once a step of the workflow has failed
get_ready_steps_stop_on_failure(workflow) ==
    IF \E j \in 1..Len(workflow.steps) : workflow.steps[j].status = "failed"
    THEN {}
    ELSE {k \in 1..Len(workflow.steps) :
             /\ workflow.steps[k].status = "pending"
             /\ dependencies_met(workflow, k)}

\* WorkflowEngine._get_ready_steps: the positions of the ready steps
get_ready_steps(workflow) ==
    {k \in 1..Len(workflow.steps) :
        /\ workflow.steps[k].status = "pending"
        /\ dependencies_met(workflow, k)}

\* WorkflowEngine._is_workflow_complete
is_workflow_complete(workflow) ==
    \A k \in 1..Len(workflow.steps) :
        workflow.steps[k].status \in {"completed", "skipped"}

\* WorkflowEngine._calculate_progress, in whole percent
calculate_progress(workflow) ==
    IF workflow.steps = <<>> THEN 0
    ELSE (Cardinality({k \in 1..Len(workflow.steps) :
                          workflow.steps[k].status = "completed"}) * 100)
         \div Len(workflow.steps)

\* WorkflowEngine._save_workflow: INSERT OR REPLACE of the row and its steps
save_workflow(table, workflow) ==
    [w \in DOMAIN table \cup {workflow.id} |->
        IF w = workflow.id THEN workflow ELSE table[w]]

\* del d[key]
DictDel(d, key) == [x \in DOMAIN d \ {key} |-> d[x]]
\* d[key] = value
DictSet(d, key, value) ==
    [x \in DOMAIN d \cup {key} |-> IF x = key THEN value ELSE d[x]]

\* WorkflowEngine.get_workflow_status: read from the database
get_workflow_status(workflow_id) ==
    [status |-> db[workflow_id].status,
     progress |-> calculate_progress(db[workflow_id])]

----------------------------------------------------------------------------
(* Actions of the workflow engine *)

wfFrame == UNCHANGED <<queues, subscriptions, message_history,
                       dead_letter_queue, circuit_breakers, is_processing,
                       stats, max_queue_size, dispatcher, requests, invoked,
                       now, kmsVars>>

\* WorkflowEngine.create_workflow: fresh uuids for the workflow and each step,
\* the dependency lists copied from the step definitions as given
CreateWorkflow(steps) ==
    /\ Cardinality(DOMAIN db) < MaxWorkflows
    /\ LET workflow_id == Uuid(uuid_count + 1)
           workflow_steps ==
               [k \in 1..Len(steps) |->
                   WorkflowStep(Uuid(uuid_count + 1 + k), steps[k].name,
                                steps[k].dependencies, steps[k].retry_count)]
           workflow == Workflow(workflow_id, workflow_steps)
       IN  db' = save_workflow(db, workflow)
    /\ uuid_count' = uuid_count + 1 + Len(steps)
    /\ UNCHANGED <<objs, active_workflows, loops, last_call>>
    /\ wfFrame

\* a Workflow built from the dataclasses by a caller that draws the step ids
\* itself and lists dependencies by step id (steps[k].depends_on: positions),
\* stored with _save_workflow
SaveWorkflow(steps) ==
    /\ Cardinality(DOMAIN db) < MaxWorkflows
    /\ LET workflow_id == Uuid(uuid_count + 1)
           workflow_steps ==
               [k \in 1..Len(steps) |->
                   WorkflowStep(Uuid(uuid_count + 1 + k), steps[k].name,
                                [d \in 1..Len(steps[k].depends_on) |->
                                    Uuid(uuid_count + 1 + steps[k].depends_on[d])],
                                steps[k].retry_count)]
           workflow == Workflow(workflow_id, workflow_steps)
       IN  db' = save_workflow(db, workflow)
    /\ uuid_count' = uuid_count + 1 + Len(steps)
    /\ UNCHANGED <<objs, active_workflows, loops, last_call>>
    /\ wfFrame

\* variant: the status check is missing
can_start_any_status(workflow_id) ==
    workflow_id \in DOMAIN db

\* the guard of start_workflow: the workflow exists and is pending
can_start(workflow_id) ==
    /\ workflow_id \in DOMAIN db
    /\ db[workflow_id].status = "pending"

\* WorkflowEngine.start_workflow
StartWorkflow(workflow_id) ==
    /\ IF can_start(workflow_id)
       THEN LET workflow == [db[workflow_id] EXCEPT !.status = "running"]
            IN  /\ objs' = Append(objs, workflow)
                /\ active_workflows' =
                       DictSet(active_workflows, workflow_id, Len(objs) + 1)
                /\ loops' = Append(loops,
                       [pc |-> "created", tasks |-> {},
                        attempts |-> [k \in 1..Len(workflow.steps) |-> 0]])
                /\ db' = save_workflow(db, workflow)
                /\ last_call' = [op |-> "start_workflow",
                                 workflow_id |-> workflow_id, result |-> TRUE]
       ELSE /\ UNCHANGED <<db, objs, active_workflows, loops>>
            /\ last_call' = [op |-> "start_workflow",
                             workflow_id |-> workflow_id, result |-> FALSE]
    /\ UNCHANGED uuid_count
    /\ wfFrame

\* WorkflowEngine.cancel_workflow
CancelWorkflow(workflow_id) ==
    /\ IF workflow_id \in DOMAIN active_workflows
       THEN LET i == active_workflows[workflow_id]
                workflow == [objs[i] EXCEPT !.status = "cancelled"]
            IN  /\ objs' = [objs EXCEPT ![i] = workflow]
                /\ db' = save_workflow(db, workflow)
                /\ active_workflows' = DictDel(active_workflows, workflow_id)
                /\ last_call' = [op |-> "cancel_workflow",
                                 workflow_id |-> workflow_id, result |-> TRUE]
       ELSE /\ UNCHANGED <<db, objs, active_workflows>>
            /\ last_call' = [op |-> "cancel_workflow",
                             workflow_id |-> workflow_id, result |-> FALSE]
    /\ UNCHANGED <<loops, uuid_count>>
    /\ wfFrame

\* the end of _execute_workflow: save the final state, drop the workflow from
\* active_workflows
finish_workflow(i, workflow) ==
    /\ objs' = [objs EXCEPT ![i] = workflow]
    /\ db' = save_workflow(db, workflow)
    /\ active_workflows' =
           IF workflow.id \in DOMAIN active_workflows
           THEN DictDel(active_workflows, workflow.id)
           ELSE active_workflows
    /\ loops' = [loops EXCEPT ![i].pc = "done", ![i].tasks = {}]

\* "for step in ready_steps: create_task(_execute_step)", then await gather
launch_steps(i, ready_steps) ==
    /\ loops' = [loops EXCEPT ![i].pc = "gather", ![i].tasks = ready_steps]
    /\ UNCHANGED <<db, objs, active_workflows>>

\* _execute_workflow from the start of the task to its first await
LoopRun(i) ==
    /\ i \in 1..Len(loops)
    /\ loops[i].pc = "created"
    /\ LET ready_steps == get_ready_steps(objs[i])
       IN  IF ready_steps # {}
           THEN launch_steps(i, ready_steps)
           ELSE finish_workflow(i, objs[i])
    /\ UNCHANGED <<last_call, uuid_count>>
    /\ wfFrame

\* _execute_step from the start of its task to the await of the handler
StepBegin(i, k) ==
    /\ i \in 1..Len(loops)
    /\ loops[i].pc = "gather"
    /\ k \in loops[i].tasks
    /\ objs[i].steps[k].status = "pending"
    /\ objs' = [objs EXCEPT ![i].steps[k].status = "running"]
    /\ loops' = [loops EXCEPT ![i].attempts[k] = @ + 1]
    /\ UNCHANGED <<db, active_workflows, last_call, uuid_count>>
    /\ wfFrame

\* the status and error _execute_step leaves when the handler returns
\* ("ok"), raises ("error") or exceeds step.timeout ("timeout")
step_result(step, outcome) ==
    IF outcome = "ok" THEN [step EXCEPT !.status = "completed"]
    ELSE IF outcome = "timeout"
    THEN [step EXCEPT !.status = "failed", !.error = "timed out"]
    ELSE [step EXCEPT !.status = "failed", !.error = "exception"]

\* _execute_step after the await of the handler
StepEnd(i, k, outcome) ==
    /\ i \in 1..Len(loops)
    /\ loops[i].pc = "gather"
    /\ k \in loops[i].tasks
    /\ objs[i].steps[k].status = "running"
    /\ objs' = [objs EXCEPT ![i].steps[k] = step_result(@, outcome)]
    /\ UNCHANGED <<db, active_workflows, loops, last_call, uuid_count>>
    /\ wfFrame

\* _execute_workflow after gather: mark the workflow completed, or launch the
\* next ready steps, or leave the loop
LoopGathered(i) ==
    /\ i \in 1..Len(loops)
    /\ loops[i].pc = "gather"
    /\ \A k \in loops[i].tasks : objs[i].steps[k].status \in {"completed", "failed"}
    /\ IF is_workflow_complete(objs[i])
       THEN finish_workflow(i, [objs[i] EXCEPT !.status = "completed"])
       ELSE LET ready_steps == get_ready_steps(objs[i])
            IN  IF ready_steps # {}
                THEN launch_steps(i, ready_steps)
                ELSE finish_workflow(i, objs[i])
    /\ UNCHANGED <<last_call, uuid_count>>
    /\ wfFrame

----------------------------------------------------------------------------
(* Python string methods on sequences of characters *)

\* ord() of the characters the model uses
Ord(c) ==
    CASE c = " " -> 32 [] c = "#" -> 35 [] c = "," -> 44 [] c = "-" -> 45
      [] c = ";" -> 59 [] c = "A" -> 65 [] c = "B" -> 66 [] c = "a" -> 97
      [] c = "b" -> 98

LowerChar(c) == IF c = "A" THEN "a" ELSE IF c = "B" THEN "b" ELSE c

\* str.lower
Lower(s) == [k \in DOMAIN s |-> LowerChar(s[k])]

\* str.lstrip(chars), str.rstrip(chars)
RECURSIVE LStrip(_, _)
LStrip(s, chars) ==
    IF s # <<>> /\ Head(s) \in chars THEN LStrip(Tail(s), chars) ELSE s
RECURSIVE RStrip(_, _)
RStrip(s, chars) ==
    IF s # <<>> /\ s[Len(s)] \in chars
    THEN RStrip(SubSeq(s, 1, Len(s) - 1), chars) ELSE s

\* str.strip(): whitespace off both ends
Strip(s) == RStrip(LStrip(s, {" "}), {" "})

\* str.replace(old, new) for single characters
Replace(s, old, new) == [k \in DOMAIN s |-> IF s[k] = old THEN new ELSE s[k]]

\* str.split(sep) for a single-character separator
RECURSIVE Split(_, _)
Split(s, sep) ==
    LET k == FirstIndex(s, sep, 1)
    IN  IF k = 0 THEN <<s>>
        ELSE <<SubSeq(s, 1, k - 1)>> \o Split(SubSeq(s, k + 1, Len(s)), sep)

\* a < b for Python strings: code-point order, a proper prefix first
RECURSIVE StrLess(_, _)
StrLess(a, b) ==
    IF b = <<>> THEN FALSE
    ELSE IF a = <<>> THEN TRUE
    ELSE IF Head(a) # Head(b) THEN Ord(Head(a)) < Ord(Head(b))
    ELSE StrLess(Tail(a), Tail(b))

\* sorted(set(xs)) for strings
RECURSIVE SortedSet(_)
SortedSet(S) ==
    IF S = {} THEN <<>>
    ELSE LET least == CHOOSE x \in S : \A y \in S : x = y \/ StrLess(x, y)
         IN  <<least>> \o SortedSet(S \ {least})

\* [f(x) for x in xs]
StripAll(xs) == [k \in DOMAIN xs |-> Strip(xs[k])]

----------------------------------------------------------------------------
(* normalize_tags: scripts/ingest.py and IngestionAgent.  The value of     *)
(* meta["tags"] is a str or a list of str.                                  *)

\* a str value is kept as the one-element list of its text
StrTags(s) == [kind |-> "str", value |-> <<s>>]
TextOf(meta) == meta.value[1]
ListTags(xs) == [kind |-> "list", value |-> xs]
NoTags == ListTags(<<>>)

\* no call made yet
NoResult == [op |-> "none"]

\* the loop of scripts/ingest.py normalize_tags over the list from entry i on
RECURSIVE normalize_loop(_, _, _)
normalize_loop(tags, i, out) ==
    IF i > Len(tags) THEN out
    ELSE LET t == Lower(Strip(tags[i]))
         IN  IF t = <<>> THEN normalize_loop(tags, i + 1, out)
             ELSE normalize_loop(tags, i + 1, Append(out, LStrip(t, {"#"})))

\* scripts/ingest.py normalize_tags
normalize_tags(meta) ==
    LET tags == IF meta.kind = "str"
                THEN StripAll(Split(Replace(TextOf(meta), ";", ","), ","))
                ELSE meta.value
    IN  SortedSet(Range(normalize_loop(tags, 1, <<>>)))

\* [tag.strip() for tag in tags.split(",") if tag.strip()]
RECURSIVE NonEmptyStripped(_)
NonEmptyStripped(xs) ==
    IF xs = <<>> THEN <<>>
    ELSE (IF Strip(Head(xs)) # <<>> THEN <<Strip(Head(xs))>> ELSE <<>>)
         \o NonEmptyStripped(Tail(xs))

\* the loop of IngestionAgent.normalize_tags over the list from entry i on
RECURSIVE agent_normalize_loop(_, _, _)
agent_normalize_loop(tags, i, normalized_tags) ==
    IF i > Len(tags) THEN normalized_tags
    ELSE IF Strip(tags[i]) = <<>>
         THEN agent_normalize_loop(tags, i + 1, normalized_tags)
    ELSE LET normalized_tag == Replace(Lower(Strip(tags[i])), " ", "-")
         IN  IF normalized_tag \in Range(normalized_tags)
             THEN agent_normalize_loop(tags, i + 1, normalized_tags)
             ELSE agent_normalize_loop(tags, i + 1,
                                       Append(normalized_tags, normalized_tag))

\* IngestionAgent.normalize_tags
agent_normalize_tags(metadata) ==
    LET tags == IF metadata.kind = "str"
                THEN NonEmptyStripped(Split(TextOf(metadata), ","))
                ELSE metadata.value
    IN  agent_normalize_loop(tags, 1, <<>>)

tagFrame == UNCHANGED <<busVars, wfVars, storeVars, query, candidates,
                        batch,
             semaphore, tasks, semantic_links, link_result, graph_db, approve_result, split_result>>

\* a call of scripts/ingest.py normalize_tags, and one on its own output
NormalizeTags ==
    /\ tags_out = NoResult
    /\ LET once == normalize_tags(tags_in)
       IN  tags_out' = [op |-> "normalize_tags", once |-> once,
                        twice |-> normalize_tags(ListTags(once))]
    /\ UNCHANGED tags_in
    /\ tagFrame

\* a call of IngestionAgent.normalize_tags, and one on its own output
AgentNormalizeTags ==
    /\ tags_out = NoResult
    /\ LET once == agent_normalize_tags(tags_in)
       IN  tags_out' = [op |-> "agent_normalize_tags", once |-> once,
                        twice |-> agent_normalize_tags(ListTags(once))]
    /\ UNCHANGED tags_in
    /\ tagFrame

----------------------------------------------------------------------------
(* Documents, the index store and ingestion: app/fetch_agent.py,           *)
(* app/index_store.py, scripts/ingest.py, IngestionAgent.process_document. *)
(* A document body is its list of lines; a line is a markdown heading or   *)
(* text.  sha1 is injective on the inputs of the model, so a digest is the *)
(* value it was taken of.                                                   *)

BucketName == "b"
\* f"gs://{blob.bucket.name}/{blob.name}"
GsPath(name) == <<"gs://", BucketName, "/", name>>
Sha1(x) == <<"sha1", x>>
NoHeading == ""
\* parse_frontmatter_dates on a frontmatter without a date: None
NoDate == <<>>

HeadingLine(title) == [heading |-> TRUE, text |-> title]
TextLine(text) == [heading |-> FALSE, text |-> text]
Raw(frontmatter, lines) == [frontmatter |-> frontmatter, lines |-> lines]

\* the etag of the next object written to the bucket
NextEtag == 1 + Max({0} \cup {bucket[n].etag : n \in DOMAIN bucket})

\* app/fetch_agent.py fetch_md
fetch_md(name) ==
    LET blob == bucket[name]
    IN  [path |-> GsPath(name),
         frontmatter |-> blob.raw.frontmatter,
         body |-> blob.raw.lines,
         created_at |-> NoDate,
         modified_at |-> blob.updated,
         hash |-> Sha1(blob.raw),
         etag |-> blob.etag,
         size |-> Len(blob.raw.lines)]

\* "\n".join(lines).strip(): the lines without the blank ones at both ends
RECURSIVE StripBlankLines(_)
StripBlankLines(texts) ==
    IF texts = <<>> THEN texts
    ELSE IF Head(texts) = "" THEN StripBlankLines(Tail(texts))
    ELSE IF texts[Len(texts)] = "" THEN StripBlankLines(SubSeq(texts, 1, Len(texts) - 1))
    ELSE texts

\* emit(s, e, heading) of split_into_chunks for a body of at most 1200
\* characters: the stripped text of lines[s:e], nothing when it is empty
emit(out, lines, s, e, heading) ==
    LET body == StripBlankLines([k \in 1..(e - s) |-> lines[s + k].text])
    IN  IF body = <<>> THEN out
        ELSE Append(out, [heading |-> heading, start_line |-> s + 1,
                          text |-> body])

\* the loop of split_into_chunks over lines from index i (0-based) on
RECURSIVE split_loop(_, _, _, _, _)
split_loop(lines, i, start, current_heading, out) ==
    IF i >= Len(lines) THEN emit(out, lines, start, Len(lines), current_heading)
    ELSE IF lines[i + 1].heading
         THEN split_loop(lines, i + 1, i + 1, lines[i + 1].text,
                         IF i > start THEN emit(out, lines, start, i, current_heading)
                         ELSE out)
    ELSE split_loop(lines, i + 1, start, current_heading, out)

\* scripts/ingest.py split_into_chunks
split_into_chunks(path, lines) == split_loop(lines, 0, 0, NoHeading, <<>>)

\* IngestionAgent.split_into_chunks: the same loop; a DocumentChunk also has
\* chunk_id f"{document_path}_chunk_{chunk_counter}" and the document_path
agent_split_into_chunks(document_path, lines) ==
    LET found == split_loop(lines, 0, 0, NoHeading, <<>>)
    IN  [k \in DOMAIN found |->
            [heading |-> found[k].heading, start_line |-> found[k].start_line,
             text |-> found[k].text,
             chunk_id |-> <<document_path, "_chunk_", k - 1>>,
             document_path |-> document_path]]

SplitIntoChunks(document_path, lines) ==
    /\ split_result' = [op |-> "split_into_chunks", lines |-> lines,
                        chunks |-> agent_split_into_chunks(document_path, lines)]
    /\ UNCHANGED <<busVars, wfVars, storeVars, tags_in, tags_out, query,
                   candidates, batch, semaphore, tasks, semantic_links,
                   link_result, graph_db, approve_result>>

\* scripts/ingest.py chunk_id_for: sha1 of f"{path}:{start_line}:{text[:64]}"
chunk_id_for(path, start_line, text) == Sha1(<<path, start_line, text>>)

Store == [files |-> files, chunks |-> chunks, chunk_tags |-> chunk_tags]

\* d[key] = value on a table keyed by its primary key
Upsert(table, key, row) ==
    [k \in DOMAIN table \cup {key} |-> IF k = key THEN row ELSE table[k]]

\* app/index_store.py upsert_file
upsert_file(st, path, etag, size, updated_ts) ==
    [st EXCEPT !.files = Upsert(@, path, [etag |-> etag, size |-> size,
                                          updated |-> updated_ts])]

\* app/index_store.py upsert_chunk
upsert_chunk(st, chunk_id, path, heading, start_line, text_val, created_at, modified_at, hash_val) ==
    [st EXCEPT !.chunks = Upsert(@, chunk_id,
                                 [path |-> path, heading |-> heading,
                                  start_line |-> start_line, text |-> text_val,
                                  created_at |-> created_at,
                                  modified_at |-> modified_at, hash |-> hash_val])]

\* the rows of chunk_tags that belong to other chunks, in order
RECURSIVE RowsNotOf(_, _)
RowsNotOf(rows, chunk_id) ==
    IF rows = <<>> THEN <<>>
    ELSE (IF Head(rows).chunk_id = chunk_id THEN <<>> ELSE <<Head(rows)>>)
         \o RowsNotOf(Tail(rows), chunk_id)

\* app/index_store.py replace_chunk_tags: delete the chunk's rows, insert one
\* row for every non-empty tag
replace_chunk_tags(st, chunk_id, tags) ==
    LET kept == SelectSeq(tags, LAMBDA t : t # <<>>)
        rows == [k \in DOMAIN kept |-> [chunk_id |-> chunk_id, tag |-> kept[k]]]
    IN  [st EXCEPT !.chunk_tags = RowsNotOf(@, chunk_id) \o rows]

\* the loop "for ch in chunks" of run_ingest from entry i on
RECURSIVE index_chunks(_, _, _, _, _)
index_chunks(st, item, chunk_list, tags, i) ==
    IF i > Len(chunk_list) THEN st
    ELSE LET ch == chunk_list[i]
             cid == chunk_id_for(item.path, ch.start_line, ch.text)
             st1 == upsert_chunk(st, cid, item.path, ch.heading, ch.start_line,
                                 ch.text, item.created_at, item.modified_at,
                                 item.hash)
         IN  index_chunks(replace_chunk_tags(st1, cid, tags), item, chunk_list,
                          tags, i + 1)

\* the body of the loop of run_ingest for one blob
ingest_blob(st, name) ==
    LET item == fetch_md(name)
    IN  IF item.path \in DOMAIN st.files /\ st.files[item.path].etag = item.etag
        THEN st
        ELSE index_chunks(upsert_file(st, item.path, item.etag, item.size,
                                      item.modified_at),
                          item, split_into_chunks(item.path, item.body),
                          normalize_tags(item.frontmatter), 1)

\* list_md_objects: the blobs in the order of their names
BlobNames == <<"a.md", "b.md">>
Listed == SelectSeq(BlobNames, LAMBDA n : n \in DOMAIN bucket)

RECURSIVE run_ingest(_, _)
run_ingest(st, i) ==
    IF i > Len(Listed) THEN st
    ELSE run_ingest(ingest_blob(st, Listed[i]), i + 1)

\* the columns of table files in DDL, the parameters of upsert_file and
\* upsert_chunk, and the calls process_document makes of them
FilesColumns == {"path", "etag", "size", "updated"}
UpsertFileParameters == <<"path", "etag", "size", "updated_ts">>
UpsertFileCall ==
    [positional |-> 1,
     keywords |-> {"path", "title", "created_at", "modified_at", "hash", "etag",
                   "size"}]
UpsertChunkParameters ==
    <<"chunk_id", "path", "heading", "start_line", "text_val", "created_at",
      "modified_at", "hash_val">>
UpsertChunkCall ==
    [positional |-> 1, keywords |-> {"file_path", "heading", "start_line", "text"}]

\* Python binds the call to the parameters (none has a default): every keyword
\* names a parameter not filled by position and no parameter is left over
Binds(parameters, call) ==
    LET free == {parameters[k] : k \in (call.positional + 1)..Len(parameters)}
    IN  /\ call.positional <= Len(parameters)
        /\ call.keywords = free

Failure(error) == [success |-> FALSE, skipped |-> FALSE, error |-> error]
Skipped == [success |-> TRUE, skipped |-> TRUE, error |-> ""]
Processed == [success |-> TRUE, skipped |-> FALSE, error |-> ""]

\* IngestionAgent.process_document: the store it leaves and the dict it returns
process_document(st, name, force_update) ==
    IF name \notin DOMAIN bucket
    THEN [store |-> st, result |-> Failure("FileNotFoundError")]
    ELSE LET doc_data == fetch_md(name)
         IN  IF ~force_update /\ "hash" \notin FilesColumns
             THEN [store |-> st, result |-> Failure("OperationalError")]
             ELSE IF /\ ~force_update
                     /\ doc_data.path \in DOMAIN st.files
                     /\ st.files[doc_data.path].hash = doc_data.hash
             THEN [store |-> st, result |-> Skipped]
             ELSE IF ~Binds(UpsertFileParameters, UpsertFileCall)
             THEN [store |-> st, result |-> Failure("TypeError")]
             ELSE LET st1 == upsert_file(st, doc_data.path, doc_data.etag,
                                         doc_data.size, doc_data.modified_at)
                  IN  [store |-> IF Binds(UpsertChunkParameters, UpsertChunkCall)
                                 THEN index_chunks(st1, doc_data,
                                          split_into_chunks(name, doc_data.body),
                                          agent_normalize_tags(doc_data.frontmatter),
                                          1)
                                 ELSE st1,
                       result |-> Processed]

CommitStore(st) ==
    /\ files' = st.files
    /\ chunks' = st.chunks
    /\ chunk_tags' = st.chunk_tags

ingestFrame == UNCHANGED <<busVars, wfVars, tags_in, tags_out, query, candidates,
                           batch,
             semaphore, tasks, semantic_links, link_result, graph_db, approve_result, split_result>>

\* the hashes of the blobs, as an ingestion call finds them
Hashes == [n \in DOMAIN bucket |-> Sha1(bucket[n].raw)]

\* a blob is written to the bucket: new content or the same again
Upload(name, raw) ==
    /\ bucket' = Upsert(bucket, name,
                        [raw |-> raw, etag |-> NextEtag, updated |-> NextEtag])
    /\ UNCHANGED <<files, chunks, chunk_tags, ingest_calls>>
    /\ ingestFrame

\* scripts/ingest.py run_ingest
RunIngest ==
    /\ CommitStore(run_ingest(Store, 1))
    /\ ingest_calls' = Append(ingest_calls,
                              [op |-> "run_ingest", name |-> "", hashes |-> Hashes,
                               force_update |-> FALSE, result |-> Processed])
    /\ UNCHANGED bucket
    /\ ingestFrame

\* IngestionAgent.process_document
ProcessDocument(name, force_update) ==
    /\ LET out == process_document(Store, name, force_update)
       IN  /\ CommitStore(out.store)
           /\ ingest_calls' = Append(ingest_calls,
                                     [op |-> "process_document", name |-> name,
                                      hashes |-> Hashes,
                                      force_update |-> force_update,
                                      result |-> out.result])
    /\ UNCHANGED bucket
    /\ ingestFrame

----------------------------------------------------------------------------
(* Candidate query (app/index_store.py:191-268, ui/server.py:445-473).     *)
(* The SQL built by build_candidate_sql is evaluated on the tables: the    *)
(* CTE filtered, the CTE tagged of the AND and of the OR branch, their     *)
(* join and the LIMIT.  The statement has no ORDER BY, so a result is the  *)
(* set of the ids of its rows.                                             *)

NoPrefix == <<>>
NoTagsParam == [given |-> FALSE, value |-> <<>>]
TagsParam(s) == [given |-> TRUE, value |-> s]

\* app/index_store.py FilterSpec
FilterSpec(tags, require_all, since, until, path_prefix) ==
    [tags |-> tags, require_all |-> require_all, since |-> since,
     until |-> until, path_prefix |-> path_prefix]

\* _time_expr: the timestamp of a row the window is tested on, NoDate for NULL
time_expr(date_field, row) ==
    IF date_field = "created" THEN row.created_at
    ELSE IF date_field = "modified" THEN <<row.modified_at>>
    ELSE IF row.created_at # NoDate THEN row.created_at
    ELSE <<row.modified_at>>

\* t BETWEEN since AND until, not true on NULL
Between(t, since, until) == t # NoDate /\ since <= t[1] /\ t[1] <= until

\* path LIKE :pfx with pfx = f"{path_prefix}%"
Like(path, path_prefix) ==
    /\ Len(path_prefix) <= Len(path)
    /\ SubSeq(path, 1, Len(path_prefix)) = path_prefix

\* WITH filtered AS (SELECT ... FROM chunks c WHERE ...)
filtered(st, filters, date_field) ==
    {id \in DOMAIN st.chunks :
        /\ Between(time_expr(date_field, st.chunks[id]), filters.since, filters.until)
        /\ filters.path_prefix # NoPrefix
              => Like(st.chunks[id].path, filters.path_prefix)}

\* the tags of the rows of a chunk that satisfy ct.tag IN (tag_in)
TagsIn(st, chunk_id, tags) ==
    {st.chunk_tags[k].tag :
        k \in {j \in DOMAIN st.chunk_tags :
                  /\ st.chunk_tags[j].chunk_id = chunk_id
                  /\ st.chunk_tags[j].tag \in Range(tags)}}

\* tagged of the AND branch: GROUP BY ct.chunk_id
\* HAVING COUNT(DISTINCT ct.tag) = len(filters.tags)
tagged_all(st, tags) ==
    {id \in {st.chunk_tags[k].chunk_id : k \in DOMAIN st.chunk_tags} :
        /\ TagsIn(st, id, tags) # {}
        /\ Cardinality(TagsIn(st, id, tags)) = Len(tags)}

\* tagged of the OR branch: SELECT DISTINCT ct.chunk_id
tagged_any(st, tags) ==
    {id \in {st.chunk_tags[k].chunk_id : k \in DOMAIN st.chunk_tags} :
        TagsIn(st, id, tags) # {}}

\* build_candidate_sql: the rows the statement selects
build_candidate_sql(st, filters, date_field) ==
    IF filters.tags # <<>>
    THEN IF filters.require_all
         THEN filtered(st, filters, date_field) \cap tagged_all(st, filters.tags)
         ELSE filtered(st, filters, date_field) \cap tagged_any(st, filters.tags)
    ELSE filtered(st, filters, date_field)

\* fetch_candidates: the statement with LIMIT :cap; the results it can give
fetch_candidates(st, filters, date_field, cap) ==
    LET rows == build_candidate_sql(st, filters, date_field)
    IN  IF Cardinality(rows) <= cap THEN {rows}
        ELSE {some \in SUBSET rows : Cardinality(some) = cap}

SearchCap == 2000

\* ui/server.py search: tag_list = [t.strip() for t in tags.split(",")] if tags
\* else []
tag_list(tags) ==
    IF tags.given /\ tags.value # <<>> THEN StripAll(Split(tags.value, ","))
    ELSE <<>>

queryFrame == UNCHANGED <<busVars, wfVars, storeVars, tags_in, tags_out,
                          batch,
             semaphore, tasks, semantic_links, link_result, graph_db, approve_result, split_result>>

\* ui/server.py search up to the call of fetch_candidates
Search(tags, require_all_tags, since, until, date_field, path_prefix) ==
    LET filt == FilterSpec(tag_list(tags), require_all_tags, since, until,
                           path_prefix)
    IN  /\ \E rows \in fetch_candidates(Store, filt, date_field, SearchCap) :
               candidates' = rows
        /\ query' = [op |-> "search", filters |-> filt, date_field |-> date_field]
        /\ queryFrame

----------------------------------------------------------------------------
(* Batch ingestion (agents/ingestion_agent.py:302-361; the same pattern in *)
(* agents/root_agent.py:174-228).  process_batch creates one coroutine     *)
(* process_with_semaphore per path and gathers them; the event loop runs   *)
(* one coroutine at a time, a coroutine gives up control only where it     *)
(* waits: for the semaphore, and inside process_document.                  *)

NoBatch == [pc |-> "idle"]

\* an acquire that never finds the semaphore taken
locked_never(value) == FALSE

\* asyncio.Semaphore.locked: no permit is left
locked(value) == value = 0

\* process_batch up to the gather: the semaphore and the coroutines
ProcessBatch(document_paths, force_update, max_concurrent) ==
    /\ batch = NoBatch
    /\ batch' = [pc |-> "gather", document_paths |-> document_paths,
                 force_update |-> force_update,
                 max_concurrent |-> max_concurrent, result |-> NoResult]
    /\ semaphore' = max_concurrent
    /\ tasks' = [i \in DOMAIN document_paths |->
                    [path |-> document_paths[i], pc |-> "created", started |-> 0,
                     result |-> NoResult]]
    /\ UNCHANGED <<busVars, wfVars, storeVars, tags_in, tags_out, query,
                   candidates, semantic_links, link_result, graph_db, approve_result, split_result>>

\* process_with_semaphore: "async with semaphore" gets a permit and
\* process_document starts
Acquire(i) ==
    /\ batch.pc = "gather"
    /\ tasks[i].pc = "created"
    /\ ~locked(semaphore)
    /\ semaphore' = semaphore - 1
    /\ tasks' = [tasks EXCEPT ![i].pc = "processing", ![i].started = @ + 1]
    /\ UNCHANGED <<busVars, wfVars, storeVars, tags_in, tags_out, query,
                   candidates, batch, semantic_links, link_result, graph_db, approve_result, split_result>>

\* process_with_semaphore: process_document returns, the permit is released
Release(i) ==
    /\ batch.pc = "gather"
    /\ tasks[i].pc = "processing"
    /\ LET out == process_document(Store, tasks[i].path, batch.force_update)
       IN  /\ CommitStore(out.store)
           /\ tasks' = [tasks EXCEPT ![i].pc = "done", ![i].result = out.result]
    /\ semaphore' = semaphore + 1
    /\ UNCHANGED <<busVars, wfVars, bucket, ingest_calls, tags_in, tags_out, query,
                   candidates, batch, semantic_links, link_result, graph_db, approve_result, split_result>>

\* process_batch after the gather: the counts of the results
GatherReturn ==
    /\ batch.pc = "gather"
    /\ \A i \in DOMAIN tasks : tasks[i].pc = "done"
    /\ LET failed == {i \in DOMAIN tasks : ~tasks[i].result.success}
           skipped == {i \in DOMAIN tasks :
                          tasks[i].result.success /\ tasks[i].result.skipped}
           successful == {i \in DOMAIN tasks :
                             tasks[i].result.success /\ ~tasks[i].result.skipped}
       IN  batch' = [batch EXCEPT
                        !.pc = "returned",
                        !.result = [success |-> failed = {},
                                    total |-> Len(batch.document_paths),
                                    successful |-> Cardinality(successful),
                                    skipped |-> Cardinality(skipped),
                                    failed |-> Cardinality(failed)]]
    /\ UNCHANGED <<busVars, wfVars, storeVars, tags_in, tags_out, query,
                   candidates, semaphore, tasks, semantic_links, link_result, graph_db, approve_result, split_result>>

----------------------------------------------------------------------------
(* Link store (agents/linking_agent.py).  Table semantic_links has one row *)
(* for a (source_id, target_id, link_type), UNIQUE in the DDL (74-100); a  *)
(* strength is written in hundredths.                                      *)

SIMILAR == "similar"
RELATED == "related"
REFERENCES == "references"

DefaultMaxLinks == 10

SemanticLink(source_id, target_id, link_type, strength) ==
    [source_id |-> source_id, target_id |-> target_id, link_type |-> link_type,
     strength |-> strength]

\* LinkingAgent._determine_link_type
determine_link_type(strength) ==
    IF strength >= 90 THEN SIMILAR
    ELSE IF strength >= 80 THEN RELATED
    ELSE IF strength >= 60 THEN REFERENCES
    ELSE RELATED

\* list.sort(key=lambda x: x.strength, reverse=True): stable, strongest first
RECURSIVE InsertByStrength(_, _)
InsertByStrength(sorted, link) ==
    IF sorted = <<>> THEN <<link>>
    ELSE IF Head(sorted).strength >= link.strength
         THEN <<Head(sorted)>> \o InsertByStrength(Tail(sorted), link)
    ELSE <<link>> \o sorted
RECURSIVE SortByStrength(_)
SortByStrength(links) ==
    IF links = <<>> THEN <<>>
    ELSE InsertByStrength(SortByStrength(SubSeq(links, 1, Len(links) - 1)),
                          links[Len(links)])

\* the loop of find_semantic_links over the documents the vector search found
RECURSIVE found_links(_, _)
found_links(document_id, similar_docs) ==
    IF similar_docs = <<>> THEN <<>>
    ELSE LET doc == Head(similar_docs)
             strength == IF doc.score < 100 THEN doc.score ELSE 100
         IN  (IF doc.note_id = document_id THEN <<>>
              ELSE <<SemanticLink(document_id, doc.note_id,
                                  determine_link_type(strength), strength)>>)
             \o found_links(document_id, Tail(similar_docs))

\* LinkingAgent.find_semantic_links
find_semantic_links(document_id, similar_docs, max_links) ==
    LET links == SortByStrength(found_links(document_id, similar_docs))
    IN  SubSeq(links, 1, IF Len(links) < max_links THEN Len(links) ELSE max_links)

\* a call of _determine_link_type
DetermineLinkType(strength) ==
    /\ link_result' = [op |-> "determine_link_type", strength |-> strength,
                       link_type |-> determine_link_type(strength)]
    /\ UNCHANGED <<busVars, wfVars, storeVars, tags_in, tags_out, query,
                   candidates, batch, semaphore, tasks, semantic_links,
                   graph_db, approve_result, split_result>>

LinkKey(link) == <<link.source_id, link.target_id, link.link_type>>

\* variant: a link whose row exists always overwrites its strength
RECURSIVE create_loop_overwrite(_, _, _)
create_loop_overwrite(out, links, i) ==
    IF i > Len(links) THEN out
    ELSE LET link == links[i]
             key == LinkKey(link)
         IN  IF key \in DOMAIN out.table
             THEN create_loop_overwrite(
                      [out EXCEPT !.table[key].strength = link.strength,
                                  !.updated = @ + 1], links, i + 1)
             ELSE create_loop_overwrite(
                      [out EXCEPT !.table = Upsert(@, key, [strength |-> link.strength]),
                                  !.created = @ + 1], links, i + 1)

\* the loop of create_links from link i on: a stronger link updates the row
\* of its key, a link without a row inserts one
RECURSIVE create_loop(_, _, _)
create_loop(out, links, i) ==
    IF i > Len(links) THEN out
    ELSE LET link == links[i]
             key == LinkKey(link)
         IN  IF key \in DOMAIN out.table
             THEN IF link.strength > out.table[key].strength
                  THEN create_loop([out EXCEPT !.table[key].strength = link.strength,
                                               !.updated = @ + 1], links, i + 1)
                  ELSE create_loop(out, links, i + 1)
             ELSE create_loop([out EXCEPT
                                  !.table = Upsert(@, key, [strength |-> link.strength]),
                                  !.created = @ + 1], links, i + 1)

\* LinkingAgent.create_links
create_links(table, source_id, links) ==
    LET out == create_loop([table |-> table, created |-> 0, updated |-> 0], links, 1)
    IN  [table |-> out.table,
         result |-> [success |-> TRUE, created |-> out.created,
                     updated |-> out.updated, total_processed |-> Len(links)]]

linkFrame == UNCHANGED <<busVars, wfVars, storeVars, tags_in, tags_out, query,
                         candidates, batch, semaphore, tasks, graph_db, approve_result, split_result>>

CreateLinks(source_id, links) ==
    LET out == create_links(semantic_links, source_id, links)
    IN  /\ semantic_links' = out.table
        /\ link_result' = [op |-> "create_links", source_id |-> source_id,
                           links |-> links, result |-> out.result]
        /\ linkFrame

\* LinkingAgent.update_links_for_document, similar_docs being what the vector
\* search returns
UpdateLinksForDocument(document_id, similar_docs) ==
    LET new_links == find_semantic_links(document_id, similar_docs, DefaultMaxLinks)
        out == create_links(semantic_links, document_id, new_links)
    IN  /\ IF new_links = <<>>
           THEN /\ UNCHANGED semantic_links
                /\ link_result' = [op |-> "update_links_for_document",
                                   source_id |-> document_id,
                                   result |-> [success |-> TRUE, created |-> 0,
                                               updated |-> 0, total_processed |-> 0]]
           ELSE /\ semantic_links' = out.table
                /\ link_result' = [op |-> "update_links_for_document",
                                   source_id |-> document_id,
                                   result |-> out.result]
        /\ linkFrame

\* the rows of get_links in some order: sqlite leaves the order of rows of
\* equal strength open
RECURSIVE RowsOf(_, _)
RowsOf(table, keys) ==
    IF keys = {} THEN <<>>
    ELSE LET key == CHOOSE x \in keys : TRUE
         IN  <<SemanticLink(key[1], key[2], key[3], table[key].strength)>>
                 \o RowsOf(table, keys \ {key})

Reverse(xs) == [k \in DOMAIN xs |-> xs[Len(xs) + 1 - k]]

\* LinkingAgent.get_links without link_type: the rows that touch the
\* document, of at least min_strength, strongest first; ties in one of two
\* opposite orders
get_links(table, document_id, min_strength, tie) ==
    LET keys == {key \in DOMAIN table :
                    /\ key[1] = document_id \/ key[2] = document_id
                    /\ table[key].strength >= min_strength}
        rows == RowsOf(table, keys)
    IN  SortByStrength(IF tie = "reverse" THEN Reverse(rows) ELSE rows)

\* the state of get_link_graph before its loop; visits logs the
\* get_document_info calls
GraphStart(document_id) ==
    [visited |-> {}, nodes |-> <<>>, edges |-> <<>>,
     queue |-> <<[id |-> document_id, depth |-> 0]>>, visits |-> <<>>]

\* variant: the queue is popped at its end
QueuePopLast(queue) ==
    [item |-> queue[Len(queue)], rest |-> SubSeq(queue, 1, Len(queue) - 1)]

\* queue.pop(0)
QueuePop(queue) == [item |-> Head(queue), rest |-> Tail(queue)]

\* "for link in links" of get_link_graph from link i on
RECURSIVE graph_links(_, _, _, _, _)
graph_links(g, links, i, current, depth) ==
    IF i > Len(links) THEN g
    ELSE LET link == links[i]
             target_id == IF link.source_id = current.id THEN link.target_id
                          ELSE link.source_id
             queued == IF target_id \notin g.visited /\ current.depth < depth
                       THEN Append(g.queue, [id |-> target_id,
                                             depth |-> current.depth + 1])
                       ELSE g.queue
             edges == IF \E e \in Range(g.edges) :
                             e.source = link.source_id /\ e.target = link.target_id
                      THEN g.edges
                      ELSE Append(g.edges, [source |-> link.source_id,
                                            target |-> link.target_id,
                                            type |-> link.link_type,
                                            strength |-> link.strength])
         IN  graph_links([g EXCEPT !.queue = queued, !.edges = edges],
                         links, i + 1, current, depth)

\* the while loop of get_link_graph; info is the set of documents
\* get_document_info knows
RECURSIVE graph_loop(_, _, _, _, _, _)
graph_loop(g, table, depth, max_nodes, info, tie) ==
    IF g.queue = <<>> \/ Cardinality(g.visited) >= max_nodes THEN g
    ELSE LET popped == QueuePop(g.queue)
             current == popped.item
         IN  IF current.id \in g.visited \/ current.depth > depth
             THEN graph_loop([g EXCEPT !.queue = popped.rest],
                             table, depth, max_nodes, info, tie)
             ELSE LET seen == [g EXCEPT
                                  !.queue = popped.rest,
                                  !.visited = @ \cup {current.id},
                                  !.visits = Append(@, current),
                                  !.nodes = IF current.id \in info
                                            THEN Upsert(@, current.id,
                                                        [depth |-> current.depth])
                                            ELSE @]
                  IN  graph_loop(graph_links(seen,
                                             get_links(table, current.id, 50, tie),
                                             1, current, depth),
                                 table, depth, max_nodes, info, tie)

\* LinkingAgent.get_link_graph
get_link_graph(table, document_id, depth, max_nodes, info, tie) ==
    LET g == graph_loop(GraphStart(document_id), table, depth, max_nodes, info, tie)
    IN  [nodes |-> g.nodes, edges |-> g.edges,
         total_nodes |-> Cardinality(DOMAIN g.nodes),
         total_edges |-> Len(g.edges), visits |-> g.visits]

GetLinkGraph(document_id, depth, max_nodes, info, tie) ==
    /\ link_result' = [op |-> "get_link_graph", document_id |-> document_id,
                       depth |-> depth, max_nodes |-> max_nodes,
                       result |-> get_link_graph(semantic_links, document_id,
                                                 depth, max_nodes, info, tie)]
    /\ UNCHANGED semantic_links
    /\ linkFrame

----------------------------------------------------------------------------
(* Pending links (obsidian-kms-adk/agents/linking_agent.py:243-271 and     *)
(* 351-394).  The agent keeps pending links in a Neo4jAdapter and writes   *)
(* edges through a GraphUpdateTool; neither is among the sources, so the   *)
(* store is the one the specification describes: a pending link has the    *)
(* fields of an edge and a status, an edge has a provenance and a          *)
(* rationale.  approve_link is taken as one step.                          *)

NoGraph == [pending_links |-> <<>>, edges |-> <<>>]
LINKS_TO == "LINKS_TO"
MANUAL == "MANUAL"

\* Neo4jAdapter.create_pending_link: a new row of status pending; its id is
\* its position
create_pending_link(g, source_note_id, target_note_id, confidence, rationale) ==
    [g EXCEPT !.pending_links =
        Append(@, [source_note_id |-> source_note_id,
                   target_note_id |-> target_note_id,
                   confidence |-> confidence, rationale |-> rationale,
                   status |-> "pending"])]

\* Neo4jAdapter.get_pending_link
get_pending_link(g, pending_link_id) == g.pending_links[pending_link_id]

\* Neo4jAdapter.update_pending_link_status
update_pending_link_status(g, pending_link_id, status) ==
    [g EXCEPT !.pending_links[pending_link_id].status = status]

\* GraphUpdateTool.upsert_edges for one edge
upsert_edges(g, note_id, edge) ==
    [g EXCEPT !.edges =
        Upsert(@, <<note_id, edge.target_id, edge.relationship>>,
               [confidence |-> edge.confidence, rationale |-> edge.rationale,
                source |-> edge.source])]

\* the loop of _create_pending_links from link i on
RECURSIVE create_pending_links(_, _, _, _)
create_pending_links(g, note_id, high_confidence_links, i) ==
    IF i > Len(high_confidence_links) THEN g
    ELSE LET link == high_confidence_links[i]
         IN  create_pending_links(
                 create_pending_link(g, note_id, link.target_note_id,
                                     link.confidence, link.rationale),
                 note_id, high_confidence_links, i + 1)

\* LinkingAgent.approve_link: the store after the call and the status returned
approve_link(g, pending_link_id, approved) ==
    IF approved
    THEN LET pending_link == get_pending_link(g, pending_link_id)
             g1 == upsert_edges(g, pending_link.source_note_id,
                                [target_id |-> pending_link.target_note_id,
                                 relationship |-> LINKS_TO,
                                 confidence |-> pending_link.confidence,
                                 rationale |-> pending_link.rationale,
                                 source |-> MANUAL])
         IN  [graph |-> update_pending_link_status(g1, pending_link_id, "approved"),
              status |-> "approved"]
    ELSE [graph |-> update_pending_link_status(g, pending_link_id, "rejected"),
          status |-> "rejected"]

pendingFrame == UNCHANGED <<busVars, wfVars, storeVars, tags_in, tags_out, query,
                            candidates, batch, semaphore, tasks, semantic_links,
                            link_result, split_result>>

CreatePendingLinks(note_id, high_confidence_links) ==
    /\ graph_db' = create_pending_links(graph_db, note_id, high_confidence_links, 1)
    /\ UNCHANGED approve_result
    /\ pendingFrame

ApproveLink(pending_link_id, approved) ==
    LET out == approve_link(graph_db, pending_link_id, approved)
    IN  /\ graph_db' = out.graph
        /\ approve_result' = [op |-> "approve_link",
                              pending_link_id |-> pending_link_id,
                              approved |-> approved, status |-> out.status]
        /\ pendingFrame

----------------------------------------------------------------------------
(* Initial state: a fresh MessageBus() and WorkflowEngine on an empty      *)
(* database                                                                *)

DefaultMaxQueueSize == 10000

InitBus(size) ==
    /\ queues = [p \in {LOW, NORMAL, HIGH, CRITICAL} |-> <<>>]
    /\ subscriptions = <<>>
    /\ message_history = <<>>
    /\ dead_letter_queue = <<>>
    /\ circuit_breakers = <<>>
    /\ is_processing = FALSE
    /\ stats = [messages_sent |-> 0, messages_processed |-> 0,
                messages_failed |-> 0, subscriptions_active |-> 0]
    /\ max_queue_size = size
    /\ dispatcher = 0
    /\ requests = <<>>
    /\ invoked = <<>>
    /\ now = 0
    /\ uuid_count = 0

InitEngine ==
    /\ db = <<>>
    /\ objs = <<>>
    /\ active_workflows = <<>>
    /\ loops = <<>>
    /\ last_call = [op |-> "none", workflow_id |-> "", result |-> FALSE]

InitStore ==
    /\ bucket = <<>>
    /\ files = <<>>
    /\ chunks = <<>>
    /\ chunk_tags = <<>>
    /\ ingest_calls = <<>>

InitKms ==
    /\ InitStore
    /\ tags_in = NoTags
    /\ tags_out = NoResult
    /\ query = NoResult
    /\ candidates = {}
    /\ batch = NoBatch
    /\ semaphore = 0
    /\ tasks = <<>>
    /\ semantic_links = <<>>
    /\ link_result = NoResult
    /\ graph_db = NoGraph
    /\ approve_result = NoResult
    /\ split_result = NoResult

Init == InitBus(DefaultMaxQueueSize) /\ InitEngine /\ InitKms

----------------------------------------------------------------------------
(* Priority scenario: one wildcard subscriber, messages of every priority  *)

Priorities == {LOW, NORMAL, HIGH, CRITICAL}
Recorder == <<"s1">>
Wildcard == <<"*">>
TopicT == <<"t">>

NextPrio ==
    \/ Start
    \/ Stop
    \/ (subscriptions = <<>> /\ Subscribe(Recorder, Wildcard))
    \/ (stats.messages_sent < MaxMessages
          /\ \E p \in Priorities : Publish(TopicT, p, NoTtl))
    \/ Dispatch({})

SpecPrio == Init /\ [][NextPrio]_vars

\* the messages a subscriber's callback was invoked with, in order
RECURSIVE ReceivedBy(_, _)
ReceivedBy(log, subscriber_id) ==
    IF log = <<>> THEN <<>>
    ELSE (IF Head(log).subscriber_id = subscriber_id
          THEN <<Head(log).message>> ELSE <<>>)
         \o ReceivedBy(Tail(log), subscriber_id)

PrioritiesOf(messages) == [k \in 1..Len(messages) |-> messages[k].priority]

\* every message of the history was published before the first callback ran
QueuedBeforeDispatch ==
    invoked # <<>> /\ invoked[1].sent = Len(message_history)

\* C1: messages queued in the order critical, low, high, normal before the
\* dispatcher handles any of them reach a subscriber matching all four in the
\* order critical, high, normal, low.
C1_PriorityOrder ==
    (/\ PrioritiesOf(message_history) = <<CRITICAL, LOW, HIGH, NORMAL>>
     /\ QueuedBeforeDispatch
     /\ Len(ReceivedBy(invoked, Recorder)) = 4
     /\ {m.id : m \in Range(ReceivedBy(invoked, Recorder))}
            = {m.id : m \in Range(message_history)})
    => PrioritiesOf(ReceivedBy(invoked, Recorder)) = <<CRITICAL, HIGH, NORMAL, LOW>>

\* the invocations of a subscriber's callback
CallsTo(subscriber_id) ==
    {k \in 1..Len(invoked) : invoked[k].subscriber_id = subscriber_id}

\* C14: two messages of one priority are handled in publish order: the one
\* published first reaches the subscriber first.
C14_FifoWithinPriority ==
    \A j, k \in CallsTo(Recorder) :
        (/\ invoked[j].message.priority = invoked[k].message.priority
         /\ invoked[j].message.id < invoked[k].message.id)
        => j < k

\* two messages of one priority were both queued, with a message of another
\* priority published between them, and both were delivered
C14_Witness ==
    \E j, k \in CallsTo(Recorder) :
        /\ invoked[j].message.priority = invoked[k].message.priority
        /\ invoked[j].message.id < invoked[k].message.id
        /\ invoked[j].sent >= invoked[k].message.id
        /\ \E m \in Range(message_history) :
               /\ m.priority # invoked[j].message.priority
               /\ invoked[j].message.id < m.id
               /\ m.id < invoked[k].message.id

----------------------------------------------------------------------------
(* Request/response scenario: the responder of the tests on topic q, which *)
(* may come and go; requests with the default timeout                      *)

TopicQ == <<"q">>
DefaultRequestTimeout == 30
TickDeltas == {30}

NextReq ==
    \/ Start
    \/ (~HasKey(subscriptions, TopicQ) /\ Subscribe(Responder, TopicQ))
    \/ Unsubscribe(Responder, TopicQ)
    \/ RequestCall(TopicQ, DefaultRequestTimeout, NORMAL)
    \/ \E r \in 1..Len(requests) : RequestResponse(r)
    \/ \E r \in 1..Len(requests) : RequestTimeout(r)
    \/ \E r \in 1..Len(requests) : RequestTimeoutReturn(r)
    \/ Dispatch({})
    \/ \E d \in TickDeltas : (now + d <= MaxNow /\ Tick(d))

SpecReq == Init /\ [][NextReq]_vars

Returned(r) == requests[r].pc = "returned"

\* C2: once request has returned, by response or by timeout, its reply
\* subscription is no longer in the subscription table.
C2_ReplySubscriptionRemoved ==
    \A r \in 1..Len(requests) :
        Returned(r) =>
            \A sub \in Range(AllSubscriptions(subscriptions)) :
                sub.subscriber_id # RequestSubscriberId(requests[r].correlation_id)

\* the invocations of request r's reply handler that happened before its wait
\* ended (by the event or by the timer)
RepliesBeforeWaitEnded(r) ==
    {k \in 1..requests[r].wait_ended_at :
        invoked[k].subscriber_id = RequestSubscriberId(requests[r].correlation_id)}

\* the request message of request r was handed to the responder
ResponderSawRequest(r) ==
    \E k \in 1..Len(invoked) :
        /\ invoked[k].subscriber_id = Responder
        /\ invoked[k].message.correlation_id = requests[r].correlation_id
        /\ invoked[k].message.topic = requests[r].topic

\* C3: request returns the message a subscriber of the request topic published
\* on the request's reply_to topic when that message was dispatched before the
\* timeout, and None when no message was dispatched on the reply topic.
C3_RequestReturnsReply ==
    \A r \in 1..Len(requests) :
        Returned(r) =>
            IF RepliesBeforeWaitEnded(r) = {}
            THEN /\ requests[r].result = <<>>
                 /\ now >= requests[r].deadline
            ELSE LET reply == invoked[Max(RepliesBeforeWaitEnded(r))].message
                 IN  /\ requests[r].result = <<reply>>
                     /\ reply.topic = requests[r].reply_topic
                     /\ reply.correlation_id = requests[r].correlation_id
                     /\ reply.type = "response"
                     /\ ResponderSawRequest(r)

\* one request answered by the responder and one timed out without a subscriber
C3_Witness ==
    \E r1, r2 \in 1..Len(requests) :
        /\ Returned(r1) /\ requests[r1].result # <<>>
        /\ Returned(r2) /\ requests[r2].result = <<>>
        /\ \A k \in 1..Len(invoked) : invoked[k].message.id # requests[r2].request_id

----------------------------------------------------------------------------
(* Circuit-breaker scenario: a subscriber whose callback may raise and a   *)
(* wildcard recorder that never does, both subscribed before any traffic;  *)
(* one message in flight at a time                                         *)

Flaky == <<"flaky">>

QueuesEmpty == \A p \in Priorities : queues[p] = <<>>

NextBreaker ==
    \/ Start
    \/ (~HasKey(subscriptions, TopicT) /\ Subscribe(Flaky, TopicT))
    \/ (~HasKey(subscriptions, Wildcard) /\ Subscribe(Recorder, Wildcard))
    \/ (/\ Len(subscriptions) = 2
        /\ QueuesEmpty
        /\ stats.messages_sent < MaxBreakerMessages
        /\ Publish(TopicT, NORMAL, NoTtl))
    \/ \E raises \in SUBSET {Flaky} : Dispatch(raises)
    \/ \E d \in TickDeltas : (now + d <= MaxBreakerNow /\ QueuesEmpty /\ Tick(d))

SpecBreaker == Init /\ [][NextBreaker]_vars

\* the invocations of a subscriber's callback for messages dispatched before
\* message m (one priority: dispatch order is id order)
CallsBefore(subscriber_id, m) ==
    {k \in 1..Len(invoked) :
        invoked[k].subscriber_id = subscriber_id /\ invoked[k].message.id < m.id}

\* the last n invocations of the subscriber before m all raised
LastFailed(subscriber_id, m, n) ==
    LET calls == CallsBefore(subscriber_id, m)
    IN  /\ Cardinality(calls) >= n
        /\ \A k \in calls :
               Cardinality({j \in calls : j >= k}) <= n => invoked[k].raised

InvokedWith(subscriber_id, m) ==
    \E k \in 1..Len(invoked) :
        invoked[k].subscriber_id = subscriber_id /\ invoked[k].message.id = m.id

C11_SuccessResetsBreaker ==
    \A s \in DOMAIN circuit_breakers :
        (CallsTo(s) # {} /\ ~invoked[Max(CallsTo(s))].raised)
            => /\ circuit_breakers[s].state = "closed"
               /\ circuit_breakers[s].failure_count = 0

\* the invocations of a subscriber's callback made by the step
NewCallsTo(subscriber_id) ==
    {k \in (Len(invoked) + 1)..Len(invoked') :
        invoked'[k].subscriber_id = subscriber_id}

\* C12: when the breaker of a subscriber is open and more than 60 seconds have
\* passed since its last failure, the next matching message is attempted once;
\* if the attempt fails the breaker is open again, and a matching message
\* dispatched while the breaker is open within the 60 seconds is skipped.
C12_HalfOpenAttempt ==
    [][(/\ Flaky \in DOMAIN circuit_breakers
        /\ circuit_breakers[Flaky].state = "open"
        /\ NewCallsTo(Recorder) # {})
       => IF now - circuit_breakers[Flaky].last_failure > BreakerTimeout
          THEN /\ Cardinality(NewCallsTo(Flaky)) = 1
               /\ \A k \in NewCallsTo(Flaky) :
                      invoked'[k].raised
                          => /\ circuit_breakers'[Flaky].state = "open"
                             /\ circuit_breakers'[Flaky].last_failure = now
          ELSE /\ NewCallsTo(Flaky) = {}
               /\ circuit_breakers'[Flaky].state = "open"
      ]_vars

\* a half-open attempt that failed, and a later message that was skipped
C12_Witness ==
    \E k \in CallsTo(Flaky) :
        LET m == invoked[k].message
        IN  /\ invoked[k].raised
            /\ LastFailed(Flaky, m, BreakerThreshold)
            /\ invoked[k].at - invoked[Max(CallsBefore(Flaky, m))].at > BreakerTimeout
            /\ \E j \in CallsTo(Recorder) :
                   /\ invoked[j].message.id > m.id
                   /\ ~InvokedWith(Flaky, invoked[j].message)

\* C15: when a matching subscriber's callback raises, the other matching
\* subscriber is still invoked exactly once for the message, the failure adds
\* one dead-letter entry, one to the subscriber's failure counter and one to
\* messages_failed, and the dispatcher loop goes on.
C15_FailureIsolated ==
    [][(\E k \in NewCallsTo(Flaky) : invoked'[k].raised)
       => /\ Cardinality(NewCallsTo(Flaky)) = 1
          /\ Cardinality(NewCallsTo(Recorder)) = 1
          /\ Len(dead_letter_queue') = Len(dead_letter_queue) + 1
          /\ dead_letter_queue'[Len(dead_letter_queue')].subscription.subscriber_id
                 = Flaky
          /\ stats'.messages_failed = stats.messages_failed + 1
          /\ stats'.messages_processed = stats.messages_processed + 1
          /\ circuit_breakers'[Flaky].failure_count
                 = IF Flaky \in DOMAIN circuit_breakers
                   THEN circuit_breakers[Flaky].failure_count + 1 ELSE 1
          /\ is_processing'
          /\ dispatcher' \in 1..Len(MessagePriority)
      ]_vars

\* the failing subscriber, first in the table, raised on a message that the
\* recorder received after it
C15_Witness ==
    \E k \in CallsTo(Flaky) :
        /\ invoked[k].raised
        /\ k < Len(invoked)
        /\ invoked[k + 1].subscriber_id = Recorder
        /\ invoked[k + 1].message = invoked[k].message
        /\ dead_letter_queue # <<>>

----------------------------------------------------------------------------
(* TTL scenario: messages with and without a TTL, a wildcard recorder, the *)
(* clock advancing while messages wait in the queue                        *)

Ttls == {NoTtl, 0, 30}

NextTtl ==
    \/ Start
    \/ (subscriptions = <<>> /\ Subscribe(Recorder, Wildcard))
    \/ (stats.messages_sent < MaxTtlMessages
          /\ \E ttl \in Ttls : Publish(TopicT, NORMAL, ttl))
    \/ Dispatch({})
    \/ \E d \in TickDeltas : (now + d <= MaxTtlNow /\ Tick(d))

SpecTtl == Init /\ [][NextTtl]_vars

\* C13: a message published with a TTL whose age at dispatch time exceeds the
\* TTL is handed to no subscriber callback.
C13_ExpiredNeverDelivered ==
    \A k \in 1..Len(invoked) :
        invoked[k].message.ttl # NoTtl
            => invoked[k].at - invoked[k].message.timestamp <= invoked[k].message.ttl

----------------------------------------------------------------------------
(* Workflow scenario: workflows made by create_workflow (dependencies by   *)
(* step name, as the callers in the repository write them) and workflows   *)
(* stored with dependencies by step id; handlers that return, raise or     *)
(* time out                                                                *)

StepDef(name, dependencies, retry_count) ==
    [name |-> name, dependencies |-> dependencies, retry_count |-> retry_count]
StepById(name, depends_on, retry_count) ==
    [name |-> name, depends_on |-> depends_on, retry_count |-> retry_count]

\* step definitions passed to create_workflow
CreateDefs ==
    { <<StepDef("Wait 1", <<>>, DefaultRetryCount)>>,
      <<StepDef("Wait 1", <<>>, DefaultRetryCount),
        StepDef("Wait 2", <<"Wait 1">>, DefaultRetryCount)>> }

\* workflows with dependencies by id: B after A
SaveDefs ==
    { <<StepById("A", <<>>, DefaultRetryCount),
        StepById("B", <<1>>, DefaultRetryCount)>> }

UnknownId == "unknown"
Outcomes == {"ok", "error", "timeout"}

NextWf ==
    \/ \E steps \in CreateDefs : CreateWorkflow(steps)
    \/ \E steps \in SaveDefs : SaveWorkflow(steps)
    \/ \E w \in DOMAIN db \cup {UnknownId} : StartWorkflow(w)
    \/ \E w \in DOMAIN db \cup {UnknownId} : CancelWorkflow(w)
    \/ \E i \in 1..Len(loops) : LoopRun(i)
    \/ \E i \in 1..Len(loops) : \E k \in loops[i].tasks : StepBegin(i, k)
    \/ \E i \in 1..Len(loops) : \E k \in loops[i].tasks :
           \E outcome \in Outcomes : StepEnd(i, k, outcome)
    \/ \E i \in 1..Len(loops) : LoopGathered(i)

SpecWf == Init /\ [][NextWf]_vars

StepIndexes(workflow) == 1..Len(workflow.steps)
Terminal == {"completed", "failed", "cancelled"}

LegalStatusChange(old, new) ==
    \/ new = old
    \/ old = "pending" /\ new = "running"
    \/ old = "running" /\ new \in Terminal

\* C4: workflow status changes only along pending -> running and
\* running -> completed / failed / cancelled; a terminal status never changes.
C4_StatusTransitions ==
    [][/\ \A w \in DOMAIN db : LegalStatusChange(db[w].status, db'[w].status)
       /\ \A i \in 1..Len(objs) : LegalStatusChange(objs[i].status, objs'[i].status)
      ]_vars

\* C5: once a workflow is cancelled the execution loop launches no further
\* step: a step that was pending and not launched stays pending and unlaunched.
C5_NoLaunchAfterCancel ==
    [][\A i \in 1..Len(objs) :
          objs[i].status = "cancelled" =>
              \A k \in StepIndexes(objs[i]) :
                  (objs[i].steps[k].status = "pending" /\ k \notin loops[i].tasks)
                  => (objs'[i].steps[k].status = "pending" /\ k \notin loops'[i].tasks)
      ]_vars

AllCompleted(workflow) ==
    \A k \in StepIndexes(workflow) : workflow.steps[k].status = "completed"

\* C6: when the execution loop of a started workflow has ended the workflow
\* is in a terminal status: completed when every step is completed, failed
\* otherwise (stalled or a step failed); it is never left running.
C6_EndsTerminal ==
    \A i \in 1..Len(loops) :
        (loops[i].pc = "done" /\ objs[i].status # "cancelled") =>
            /\ db[objs[i].id].status = objs[i].status
            /\ objs[i].status = IF AllCompleted(objs[i]) THEN "completed" ELSE "failed"

\* the dependencies of the workflow are names of its own steps, and there is one
DependsByName(workflow) ==
    /\ \E k \in StepIndexes(workflow) : workflow.steps[k].dependencies # <<>>
    /\ \A k \in StepIndexes(workflow) :
           \A d \in Range(workflow.steps[k].dependencies) :
               \E j \in StepIndexes(workflow) : workflow.steps[j].name = d

\* C7: a workflow from create_workflow whose steps name their dependencies by
\* step name runs its steps in dependency order and, when every handler
\* succeeds, ends completed with progress 100.
C7_NamedDependenciesComplete ==
    \A i \in 1..Len(loops) :
        DependsByName(objs[i]) =>
            /\ \A k \in StepIndexes(objs[i]) :
                   objs[i].steps[k].status \in {"running", "completed"} =>
                       \A j \in StepIndexes(objs[i]) :
                           objs[i].steps[j].name \in Range(objs[i].steps[k].dependencies)
                               => objs[i].steps[j].status = "completed"
            /\ (/\ loops[i].pc = "done"
                /\ objs[i].status # "cancelled"
                /\ \A k \in StepIndexes(objs[i]) : objs[i].steps[k].status # "failed")
               => /\ get_workflow_status(objs[i].id).status = "completed"
                  /\ get_workflow_status(objs[i].id).progress = 100

\* C8: a step with retry_count n > 0 is marked failed only once its retry
\* budget is exhausted, that is after its handler ran n + 1 times.
C8_FailedOnlyAfterRetries ==
    \A i \in 1..Len(loops) :
        \A k \in StepIndexes(objs[i]) :
            (objs[i].steps[k].status = "failed" /\ objs[i].steps[k].retry_count > 0)
                => loops[i].attempts[k] = objs[i].steps[k].retry_count + 1

\* every workflow is run by at most one execution loop
AtMostOneLoop ==
    \A i, j \in 1..Len(objs) : objs[i].id = objs[j].id => i = j

\* C9: start_workflow on an unknown id or on a workflow that is not pending
\* returns False and changes neither the database, the workflow objects,
\* active_workflows nor the set of execution loops; a workflow is run by at
\* most one loop.
C9_StartNonPendingRejected ==
    /\ [][\A w \in DOMAIN db \cup {UnknownId} :
            (/\ StartWorkflow(w)
             /\ (w \notin DOMAIN db \/ db[w].status # "pending"))
            => /\ last_call'.result = FALSE
               /\ UNCHANGED <<db, objs, active_workflows, loops>>
         ]_vars
    /\ []AtMostOneLoop

\* start_workflow returned False for a stored workflow that had completed
C9_Witness ==
    /\ last_call.op = "start_workflow"
    /\ last_call.result = FALSE
    /\ last_call.workflow_id \in DOMAIN db
    /\ db[last_call.workflow_id].status = "completed"
    /\ \E i \in 1..Len(loops) :
           objs[i].id = last_call.workflow_id /\ loops[i].pc = "done"

----------------------------------------------------------------------------
(* Tag scenario: normalize_tags on every short tag string and tag list    *)

TagChars == {" ", "#", "a", "B"}

\* the strings over an alphabet of at most n characters
RECURSIVE Strings(_, _)
Strings(alphabet, n) ==
    IF n = 0 THEN {<<>>}
    ELSE LET shorter == Strings(alphabet, n - 1)
         IN  shorter \cup {Append(s, c) : s \in shorter, c \in alphabet}

\* the lists of at most n elements of S
RECURSIVE Lists(_, _)
Lists(S, n) ==
    IF n = 0 THEN {<<>>}
    ELSE LET shorter == Lists(S, n - 1)
         IN  shorter \cup {Append(xs, x) : xs \in shorter, x \in S}

TagInputs ==
    {StrTags(s) : s \in Strings(TagChars \cup {","}, MaxTagStringLen)}
        \cup {ListTags(xs) : xs \in Lists(Strings(TagChars, MaxTagLen), MaxTags)}

InitTags ==
    /\ InitBus(DefaultMaxQueueSize)
    /\ InitEngine
    /\ InitStore
    /\ tags_in \in TagInputs
    /\ tags_out = NoResult
    /\ query = NoResult
    /\ candidates = {}
    /\ batch = NoBatch
    /\ semaphore = 0
    /\ tasks = <<>>
    /\ semantic_links = <<>>
    /\ link_result = NoResult
    /\ graph_db = NoGraph
    /\ approve_result = NoResult
    /\ split_result = NoResult

NextTags ==
    \/ NormalizeTags
    \/ AgentNormalizeTags

SpecTags == InitTags /\ [][NextTags]_vars

IsSorted(xs) ==
    \A j, k \in DOMAIN xs : j < k => StrLess(xs[j], xs[k])

Canonical(t) ==
    /\ t # <<>>
    /\ t = Lower(t)
    /\ t = Strip(t)
    /\ Head(t) # "#"

\* C17: normalize_tags is idempotent and its output is sorted, without
\* duplicates, every element lower-case, trimmed, non-empty and without a
\* leading '#'.
C17_NormalizeCanonical ==
    tags_out # NoResult =>
        /\ tags_out.twice = tags_out.once
        /\ IsSorted(tags_out.once)
        /\ \A k \in DOMAIN tags_out.once : Canonical(tags_out.once[k])

----------------------------------------------------------------------------
(* Ingestion scenario: two blobs that are written and written again, the   *)
(* ingest script and process_document with and without force_update        *)

DocA == Raw(ListTags(<<<<"a">>>>), <<HeadingLine("H"), TextLine("x")>>)
DocB == Raw(StrTags(<<"a", ",", "b">>), <<TextLine("y"), HeadingLine("G"), TextLine("z")>>)
Raws == {DocA, DocB}

NextIngest ==
    \/ \E name \in Range(BlobNames) : \E raw \in Raws :
           (NextEtag <= MaxUploads /\ Upload(name, raw))
    \/ (Len(ingest_calls) < MaxIngestCalls /\ RunIngest)
    \/ \E name \in Range(BlobNames) : \E force_update \in BOOLEAN :
           (Len(ingest_calls) < MaxIngestCalls /\ ProcessDocument(name, force_update))

SpecIngest == Init /\ [][NextIngest]_vars

\* an earlier ingestion call found the blob with the bytes it has now
IngestedBefore(name) ==
    \E k \in DOMAIN ingest_calls :
        /\ ingest_calls[k].op = "process_document" => ingest_calls[k].name = name
        /\ name \in DOMAIN ingest_calls[k].hashes
        /\ ingest_calls[k].hashes[name] = Hashes[name]

\* C16: process_document without force_update on bytes that were ingested
\* before returns skipped = true and writes nothing to the store.
C16_SecondIngestSkipped ==
    [][\A name \in DOMAIN bucket :
          (ProcessDocument(name, FALSE) /\ IngestedBefore(name))
          => /\ ingest_calls'[Len(ingest_calls')].result.skipped
             /\ UNCHANGED <<files, chunks, chunk_tags>>
      ]_vars

----------------------------------------------------------------------------
(* Query scenario: documents tagged [a], [a, b] and [b] are written to the *)
(* bucket and ingested by the script (a blob written after the last run of *)
(* the script is never read), and /search is called with every tags       *)
(* parameter of at most MaxTagStringLen characters once the script has run *)
(* MaxQueryIngests times                                                   *)

TaggedA == Raw(ListTags(<<<<"a">>>>), <<TextLine("x")>>)
TaggedAB == Raw(ListTags(<<<<"a">>, <<"b">>>>), <<TextLine("y")>>)
TaggedB == Raw(ListTags(<<<<"b">>>>), <<TextLine("z")>>)
TaggedRaws == {TaggedA, TaggedAB, TaggedB}

TagsParams ==
    {NoTagsParam} \cup {TagsParam(s) : s \in Strings({"a", "b", ","}, MaxTagStringLen)}
Windows == {<<0, MaxUploads>>, <<2, MaxUploads>>}
DateFields == {"auto", "created", "modified"}
PathPrefixes == {NoPrefix, GsPath("a.md")}

NextQuery ==
    \/ \E name \in Range(BlobNames) : \E raw \in TaggedRaws :
           (/\ NextEtag <= MaxUploads
            /\ Len(ingest_calls) < MaxQueryIngests
            /\ Upload(name, raw))
    \/ (Len(ingest_calls) < MaxQueryIngests /\ RunIngest)
    \/ \E tags \in TagsParams : \E require_all_tags \in BOOLEAN :
       \E window \in Windows : \E date_field \in DateFields :
       \E path_prefix \in PathPrefixes :
           (query = NoResult /\ Len(ingest_calls) = MaxQueryIngests
            /\ Search(tags, require_all_tags, window[1], window[2], date_field,
                      path_prefix))

SpecQuery == Init /\ [][NextQuery]_vars

\* the tags a chunk carries
Carries(chunk_id) ==
    {chunk_tags[k].tag :
        k \in {j \in DOMAIN chunk_tags : chunk_tags[j].chunk_id = chunk_id}}

\* the chunks inside the window (and under the path prefix) of a query that
\* carry every requested tag, respectively at least one
CarryAll(q) ==
    {id \in filtered(Store, q.filters, q.date_field) :
        Range(q.filters.tags) \subseteq Carries(id)}
CarryAny(q) ==
    {id \in filtered(Store, q.filters, q.date_field) :
        Range(q.filters.tags) \cap Carries(id) # {}}

\* C18: a search that requests tags returns exactly the in-window chunks that
\* carry every requested tag when require_all is true, and exactly those that
\* carry at least one requested tag when it is false.
C18_TagSemantics ==
    [][(/\ query' # query \/ candidates' # candidates
        /\ query'.filters.tags # <<>>)
       => candidates' = IF query'.filters.require_all THEN CarryAll(query')
                        ELSE CarryAny(query')
      ]_vars

----------------------------------------------------------------------------
(* Batch scenario: one process_batch call on at most MaxBatchDocs paths    *)
(* with a limit of at most MaxConcurrent, on a bucket to which at most     *)
(* MaxBatchUploads blobs were written before                               *)

BatchPaths == Lists(Range(BlobNames), MaxBatchDocs)

NextBatch ==
    \/ \E name \in Range(BlobNames) :
           (batch = NoBatch /\ NextEtag <= MaxBatchUploads /\ Upload(name, DocA))
    \/ \E document_paths \in BatchPaths : \E force_update \in BOOLEAN :
       \E max_concurrent \in 0..MaxConcurrent :
           ProcessBatch(document_paths, force_update, max_concurrent)
    \/ \E i \in DOMAIN tasks : Acquire(i)
    \/ \E i \in DOMAIN tasks : Release(i)
    \/ GatherReturn

SpecBatch == Init /\ [][NextBatch]_vars

\* the documents being processed
Processing == {i \in DOMAIN tasks : tasks[i].pc = "processing"}

\* C19: during a batch never more than max_concurrent documents are being
\* processed, no document is started twice, a document that waits can start
\* whenever a permit is free whatever the others returned, and when the batch
\* returns every document was processed once and is counted.
C19_BatchConcurrency ==
    batch # NoBatch =>
        /\ Cardinality(Processing) <= batch.max_concurrent
        /\ \A i \in DOMAIN tasks :
              /\ tasks[i].started <= 1
              /\ tasks[i].pc # "created" => tasks[i].started = 1
              /\ (batch.pc = "gather" /\ tasks[i].pc = "created" /\ semaphore > 0)
                 => ENABLED Acquire(i)
        /\ batch.pc = "returned" =>
              /\ \A i \in DOMAIN tasks : tasks[i].pc = "done"
              /\ batch.result.total = Len(tasks)
              /\ batch.result.total = batch.result.successful
                                      + batch.result.skipped + batch.result.failed

\* as many documents as the limit allows are being processed, one has
\* failed and one still waits for a permit
C19_Witness ==
    /\ batch # NoBatch
    /\ batch.max_concurrent > 0
    /\ Cardinality(Processing) = batch.max_concurrent
    /\ \E i \in DOMAIN tasks : tasks[i].pc = "done" /\ ~tasks[i].result.success
    /\ \E i \in DOMAIN tasks : tasks[i].pc = "created"

----------------------------------------------------------------------------
(* Link scenario: links between two documents, created directly and found  *)
(* by the vector search, of strengths 0.70, 0.75 and 0.90                  *)

LinkDocs == {"a", "b"}
Strengths == {70, 75, 90}
Links ==
    {SemanticLink(s, t, determine_link_type(strength), strength) :
        s \in LinkDocs, t \in LinkDocs, strength \in Strengths}
SimilarDocs == [note_id : LinkDocs, score : Strengths]

NextLinks ==
    \/ \E source_id \in LinkDocs : \E links \in Lists(Links, MaxLinks) :
           CreateLinks(source_id, links)
    \/ \E document_id \in LinkDocs : \E similar_docs \in Lists(SimilarDocs, MaxLinks) :
           UpdateLinksForDocument(document_id, similar_docs)

SpecLinks == Init /\ [][NextLinks]_vars

\* C20: after every linking operation, every persisted link (s, t, r) of a
\* strength has a persisted link (t, s, r) of the same strength.
C20_LinksSymmetric ==
    \A key \in DOMAIN semantic_links :
        /\ <<key[2], key[1], key[3]>> \in DOMAIN semantic_links
        /\ semantic_links[<<key[2], key[1], key[3]>>].strength
              = semantic_links[key].strength

----------------------------------------------------------------------------
(* Pending-link scenario: at most MaxPending links between two notes are   *)
(* proposed and decided, any of them any number of times                   *)

Notes == {"n1", "n2"}
Rationales == {"r1", "r2"}
HighConfidenceLinks ==
    [target_note_id : Notes, confidence : {80}, rationale : Rationales]

NextPending ==
    \/ \E note_id \in Notes : \E links \in Lists(HighConfidenceLinks, 1) :
           (/\ Len(graph_db.pending_links) + Len(links) <= MaxPending
            /\ \A k \in DOMAIN links : links[k].target_note_id # note_id
            /\ CreatePendingLinks(note_id, links))
    \/ \E pending_link_id \in DOMAIN graph_db.pending_links :
       \E approved \in BOOLEAN :
           ApproveLink(pending_link_id, approved)

SpecPending == Init /\ [][NextPending]_vars

----------------------------------------------------------------------------
(* Chunking scenario: split_into_chunks on every document of at most       *)
(* MaxDocLines lines that are headings, text or blank                      *)

DocLines == {HeadingLine("T"), HeadingLine("S"), TextLine("x"), TextLine("")}

NextChunks ==
    \E lines \in Lists(DocLines, MaxDocLines) : SplitIntoChunks("d.md", lines)

SpecChunks == Init /\ [][NextChunks]_vars

\* a document whose first line is a heading, followed by body text and by a
\* further heading with text
HeadingFirst(lines) ==
    /\ Len(lines) >= 4
    /\ lines[1].heading /\ lines[1].text # ""
    /\ ~lines[2].heading /\ lines[2].text # ""
    /\ \E k \in 3..(Len(lines) - 1) :
          /\ lines[k].heading /\ lines[k].text # ""
          /\ ~lines[k + 1].heading /\ lines[k + 1].text # ""

\* C22: for a document whose first line is a heading followed by body text
\* and further headed sections, the first chunk of split_into_chunks has no
\* heading and the second chunk has the first heading.
C22_FirstChunkWithoutHeading ==
    (split_result # NoResult /\ HeadingFirst(split_result.lines))
    => /\ Len(split_result.chunks) >= 2
       /\ split_result.chunks[1].heading = NoHeading
       /\ split_result.chunks[2].heading = split_result.lines[1].text

----------------------------------------------------------------------------
(* Link type scenario: _determine_link_type on every strength from 0.00 to *)
(* 1.00 in hundredths                                                      *)

NextLinkType == \E strength \in 0..100 : DetermineLinkType(strength)

SpecLinkType == Init /\ [][NextLinkType]_vars

\* C23: _determine_link_type gives SIMILAR for strength 0.9 and RELATED for
\* strength 0.7.
C23_LinkTypeOfStrength ==
    link_result.op = "determine_link_type" =>
        /\ link_result.strength = 90 => link_result.link_type = SIMILAR
        /\ link_result.strength = 70 => link_result.link_type = RELATED

----------------------------------------------------------------------------
(* Dependency scenario: one workflow of at most MaxDagSteps steps, stored  *)
(* with dependencies by step id; a step depends on any set of earlier      *)
(* steps and possibly on an id that is no step of the workflow; handlers   *)
(* return, raise or time out                                               *)

\* the elements of a set of numbers in ascending order
RECURSIVE Ascending(_)
Ascending(S) ==
    IF S = {} THEN <<>>
    ELSE LET least == CHOOSE x \in S : \A y \in S : x <= y
         IN  <<least>> \o Ascending(S \ {least})

\* the step lists of n steps: step k depends on earlier positions and, with
\* position n + 1, on an unknown id
RECURSIVE DagDefs(_, _)
DagDefs(n, k) ==
    IF k = 0 THEN {<<>>}
    ELSE {Append(steps, StepById("S", Ascending(deps), DefaultRetryCount)) :
             steps \in DagDefs(n, k - 1),
             deps \in SUBSET ((1..(k - 1)) \cup {n + 1})}

NextDag ==
    \/ \E n \in 1..MaxDagSteps : \E steps \in DagDefs(n, n) :
           (db = <<>> /\ SaveWorkflow(steps))
    \/ \E w \in DOMAIN db : StartWorkflow(w)
    \/ \E i \in 1..Len(loops) : LoopRun(i)
    \/ \E i \in 1..Len(loops) : \E k \in loops[i].tasks : StepBegin(i, k)
    \/ \E i \in 1..Len(loops) : \E k \in loops[i].tasks :
           \E outcome \in Outcomes : StepEnd(i, k, outcome)
    \/ \E i \in 1..Len(loops) : LoopGathered(i)

SpecDag == Init /\ [][NextDag]_vars

\* the ids of the completed steps of a workflow
CompletedIds(workflow) ==
    {workflow.steps[j].id : j \in {x \in StepIndexes(workflow) :
                                      workflow.steps[x].status = "completed"}}

\* the pending steps all of whose dependencies are completed steps
Runnable(workflow) ==
    {k \in StepIndexes(workflow) :
        /\ workflow.steps[k].status = "pending"
        /\ Range(workflow.steps[k].dependencies) \subseteq CompletedIds(workflow)}

\* C24: the steps the execution loop takes from _get_ready_steps are exactly
\* the pending steps whose dependencies are all completed steps of the
\* workflow: it launches exactly those, and it ends without launching only
\* when there is none.
C24_ReadyStepsExact ==
    [][\A i \in 1..Len(loops) :
          (LoopRun(i) \/ LoopGathered(i)) =>
              /\ loops'[i].pc = "gather" => loops'[i].tasks = Runnable(objs[i])
              /\ (loops'[i].pc = "done" /\ objs'[i].status # "completed")
                    => Runnable(objs[i]) = {}
      ]_vars

\* a round in which a step with dependencies was launched while a pending
\* step that depends on a failed step stays behind
C24_Witness ==
    \E i \in 1..Len(loops) :
        /\ loops[i].pc = "gather"
        /\ \E k \in loops[i].tasks : objs[i].steps[k].dependencies # <<>>
        /\ \E k \in StepIndexes(objs[i]) \ loops[i].tasks :
              /\ objs[i].steps[k].status = "pending"
              /\ \E j \in StepIndexes(objs[i]) :
                    /\ objs[i].steps[j].status = "failed"
                    /\ objs[i].steps[j].id \in Range(objs[i].steps[k].dependencies)

\* every dependency of every step is the id of a step of the workflow
WellFormed(workflow) ==
    \A k \in StepIndexes(workflow) :
        Range(workflow.steps[k].dependencies)
            \subseteq {workflow.steps[j].id : j \in StepIndexes(workflow)}

\* step k depends, directly or through other steps, on a failed step
RECURSIVE DependsOnFailed(_, _)
DependsOnFailed(workflow, k) ==
    \E j \in 1..(k - 1) :
        /\ workflow.steps[j].id \in Range(workflow.steps[k].dependencies)
        /\ \/ workflow.steps[j].status = "failed"
           \/ DependsOnFailed(workflow, j)

\* a step has failed in workflow i
SomeFailed(i) ==
    \E f \in StepIndexes(objs[i]) : objs[i].steps[f].status = "failed"

\* C25 (a failure touches no sibling): the failure of a step changes that
\* step alone; the other steps of the round keep their status and stay in
\* the round.
C25_FailureLeavesSiblings ==
    [][\A i \in 1..Len(loops) : \A k \in loops[i].tasks :
          \A outcome \in {"error", "timeout"} :
              StepEnd(i, k, outcome) =>
                  /\ loops'[i].tasks = loops[i].tasks
                  /\ \A j \in StepIndexes(objs[i]) \ {k} :
                        objs'[i].steps[j] = objs[i].steps[j]
      ]_vars

----------------------------------------------------------------------------
(* Link strength scenario: create_links calls with lists of at most        *)
(* MaxSubmitted links out of document "a".  The table semantic_links is     *)
(* declared UNIQUE(source_id, target_id, link_type): it is a function of    *)
(* that key.                                                                *)

SubmittedLinks ==
    {SemanticLink("a", t, determine_link_type(strength), strength) :
        t \in LinkDocs, strength \in Strengths}

SubmittedLists == Lists(SubmittedLinks, MaxSubmitted)

NextStrengths ==
    \E links \in SubmittedLists : CreateLinks("a", links)

SpecStrengths == Init /\ [][NextStrengths]_vars

\* the strengths a list of links submits for a key
Submitted(key, links) ==
    {links[k].strength : k \in {x \in 1..Len(links) : LinkKey(links[x]) = key}}

\* the strength stored for a key before the call, if any
Stored(key) ==
    IF key \in DOMAIN semantic_links THEN {semantic_links[key].strength} ELSE {}

\* C26: no linking operation removes a row or lowers its strength, and a
\* create_links call leaves for every key the greatest of the strength stored
\* before and the strengths submitted; a call with one link counts an update
\* exactly when the row existed with a strictly lower strength.
C26_StrengthIsMaximum ==
    [][/\ \A key \in DOMAIN semantic_links :
             /\ key \in DOMAIN semantic_links'
             /\ semantic_links'[key].strength >= semantic_links[key].strength
       /\ link_result'.op = "create_links" =>
             LET links == link_result'.links
             IN  /\ DOMAIN semantic_links' =
                        DOMAIN semantic_links \cup {LinkKey(links[k]) : k \in 1..Len(links)}
                 /\ \A key \in DOMAIN semantic_links' :
                        \A s \in Stored(key) \cup Submitted(key, links) :
                            semantic_links'[key].strength >= s
                 /\ \A key \in DOMAIN semantic_links' :
                        semantic_links'[key].strength
                            \in Stored(key) \cup Submitted(key, links)
                 /\ Len(links) = 1 =>
                        link_result'.result.updated =
                            IF \E s \in Stored(LinkKey(links[1])) : links[1].strength > s
                            THEN 1 ELSE 0
      ]_vars

\* a create_links call found a stronger row for its link and left it alone
C26_Witness ==
    /\ link_result.op = "create_links"
    /\ Len(link_result.links) = 1
    /\ link_result.result.created = 0
    /\ link_result.result.updated = 0
    /\ semantic_links[LinkKey(link_result.links[1])].strength
           > link_result.links[1].strength

----------------------------------------------------------------------------
(* Link graph scenario: at most MaxGraphLinks links of strength 0.40 or     *)
(* 0.70 between four documents, of which "d" is unknown to the vector       *)
(* index; a graph is asked from any document after any link is stored      *)

GraphDocs == {"a", "b", "c", "d"}
GraphInfo == {"a", "b", "c"}
GraphPairs == {<<"a", "b">>, <<"a", "c">>, <<"a", "d">>, <<"b", "c">>,
               <<"b", "d">>, <<"c", "d">>}
GraphLinks ==
    {SemanticLink(p[1], p[2], determine_link_type(strength), strength) :
        p \in GraphPairs, strength \in {40, 70}}

NextGraph ==
    \/ \E link \in GraphLinks :
           /\ Cardinality(DOMAIN semantic_links) < MaxGraphLinks
           /\ LinkKey(link) \notin DOMAIN semantic_links
           /\ CreateLinks(link.source_id, <<link>>)
    \/ \E document_id \in GraphDocs : \E depth \in 0..MaxDepth :
           \E max_nodes \in 0..MaxNodes : \E tie \in {"forward", "reverse"} :
               /\ link_result.op # "get_link_graph"
               /\ GetLinkGraph(document_id, depth, max_nodes, GraphInfo, tie)

SpecGraph == Init /\ [][NextGraph]_vars

\* the documents one link of strength >= 0.5 away from a set of documents
Neighbours(S) ==
    {key[2] : key \in {x \in DOMAIN semantic_links :
                          x[1] \in S /\ semantic_links[x].strength >= 50}}
        \cup {key[1] : key \in {x \in DOMAIN semantic_links :
                                   x[2] \in S /\ semantic_links[x].strength >= 50}}

\* the documents at most n links away from the start
RECURSIVE Within(_, _)
Within(start, n) ==
    IF n = 0 THEN {start}
    ELSE Within(start, n - 1) \cup Neighbours(Within(start, n - 1))

\* the least number of links from the start to a document
RECURSIVE MinHops(_, _, _)
MinHops(start, doc, n) ==
    IF doc \in Within(start, n) \/ n > Cardinality(GraphDocs) THEN n
    ELSE MinHops(start, doc, n + 1)

----------------------------------------------------------------------------
(* Overflow scenario: a bus built with max_queue_size 0..MaxQueueSize, one  *)
(* wildcard subscriber, messages of two priorities; the bus is never        *)
(* stopped                                                                  *)

InitOverflow ==
    /\ \E size \in 0..MaxQueueSize : InitBus(size)
    /\ InitEngine
    /\ InitKms

OverflowPriorities == {NORMAL, HIGH}

NextOverflow ==
    \/ Start
    \/ (subscriptions = <<>> /\ Subscribe(Recorder, Wildcard))
    \/ (stats.messages_sent < MaxMessages
          /\ \E p \in OverflowPriorities : Publish(TopicT, p, NoTtl))
    \/ Dispatch({})

SpecOverflow == InitOverflow /\ [][NextOverflow]_vars

\* the last n elements of a sequence, all of them if it has fewer
LastN(xs, n) == SubSeq(xs, IF Len(xs) > n THEN Len(xs) - n + 1 ELSE 1, Len(xs))

\* the messages in some queue
Queued == UNION {Range(queues[p]) : p \in Priorities}

\* C28: no queue ever holds more than max_queue_size messages; a publish is
\* counted in messages_sent and takes a new id whether or not its queue is
\* full, leaves the other queues alone and leaves in its queue the newest
\* max_queue_size of the messages queued and the new one, so that a full
\* queue loses its oldest message; no other step adds to a queue, and a
\* callback is only ever invoked with a message taken from a queue: an
\* evicted message reaches no subscriber.
C28_QueueBounded ==
    [][/\ \A p \in Priorities : Len(queues'[p]) <= max_queue_size
       /\ \A p \in OverflowPriorities :
             Publish(TopicT, p, NoTtl) =>
                 /\ stats'.messages_sent = stats.messages_sent + 1
                 /\ uuid_count' = uuid_count + 1
                 /\ \E m \in Range(message_history') :
                       /\ m.id = uuid_count'
                       /\ m.priority = p
                       /\ queues'[p] = LastN(Append(queues[p], m), max_queue_size)
                       /\ (Len(queues[p]) = max_queue_size /\ max_queue_size > 0)
                             => queues'[p] = Append(Tail(queues[p]), m)
                 /\ \A q \in Priorities \ {p} : queues'[q] = queues[q]
                 /\ invoked' = invoked
       /\ (\A p \in OverflowPriorities : ~Publish(TopicT, p, NoTtl)) =>
             /\ \A p \in Priorities : Range(queues'[p]) \subseteq Range(queues[p])
             /\ \A k \in (Len(invoked) + 1)..Len(invoked') :
                   invoked'[k].message \in Queued
      ]_vars

\* before the bus is started a message of the history is in no queue, and
\* the queue of its priority is full of messages published after it
C28_Witness ==
    /\ ~is_processing
    /\ invoked = <<>>
    /\ max_queue_size > 0
    /\ stats.messages_sent = Len(message_history)
    /\ \E m \in Range(message_history) :
          /\ m \notin Queued
          /\ Len(queues[m.priority]) = max_queue_size
          /\ \A x \in Range(queues[m.priority]) : x.id > m.id

----------------------------------------------------------------------------
(* Subscription scenario: two subscribers subscribe to and unsubscribe from *)
(* two patterns in any order, with at most MaxSubs entries in the table     *)
(* and a counter kept between -MaxSubs and MaxSubs                          *)

Listener == <<"s2">>
Subscribers == {Recorder, Listener}
Patterns == {Wildcard, TopicT}

NextSubs ==
    \/ \E s \in Subscribers : \E p \in Patterns :
           /\ Len(AllSubscriptions(subscriptions)) < MaxSubs
           /\ stats.subscriptions_active < MaxSubs
           /\ Subscribe(s, p)
    \/ \E s \in Subscribers : \E p \in Patterns :
           /\ stats.subscriptions_active > -MaxSubs
           /\ Unsubscribe(s, p)

SpecSubs == Init /\ [][NextSubs]_vars

\* C29: stats['subscriptions_active'] is the number of Subscription entries
\* in the subscription table.
C29_SubscriptionCount ==
    stats.subscriptions_active = Len(AllSubscriptions(subscriptions))

----------------------------------------------------------------------------
(* Dispatcher progress scenario: at most MaxLiveMessages messages of two    *)
(* priorities, one wildcard subscriber, the bus never stopped.  The         *)
(* dispatcher task sleeps 1 ms after every pass and awaits each callback:   *)
(* the event loop runs it again whenever it is ready, which is weak         *)
(* fairness of its step.                                                    *)

LivePriorities == {LOW, HIGH}

NextLive ==
    \/ Start
    \/ (subscriptions = <<>> /\ Subscribe(Recorder, Wildcard))
    \/ (stats.messages_sent < MaxLiveMessages
          /\ \E p \in LivePriorities : Publish(TopicT, p, NoTtl))
    \/ Dispatch({})

SpecLive == Init /\ [][NextLive]_vars /\ WF_vars(Dispatch({}))

\* the message of an id is in a queue
InQueue(id) == \E m \in Queued : m.id = id

C30_OnePerPass ==
    [][Dispatch({}) =>
          \A k \in 1..Len(MessagePriority) :
              Len(queues'[MessagePriority[k]]) < Len(queues[MessagePriority[k]]) =>
                  /\ dispatcher <= k
                  /\ \A j \in dispatcher..(k - 1) : queues[MessagePriority[j]] = <<>>
                  /\ dispatcher' = IF k = Len(MessagePriority) THEN 1 ELSE k + 1
                  /\ queues'[MessagePriority[k]] = Tail(queues[MessagePriority[k]])
                  /\ \A j \in 1..Len(MessagePriority) \ {k} :
                        queues'[MessagePriority[j]] = queues[MessagePriority[j]]
      ]_vars

====
